---- MODULE Spec2Model ----
(***************************************************************************)
(* The calcifer gateway. Streaming: GatewayService.StreamByModel (cache     *)
(* probe, routing, provider stream, caching relay, replay from cache), the  *)
(* OpenAI streaming bridge, the echo provider stream and the consumers of   *)
(* the chunk channel (the SSE handler and range loops). Buffered:           *)
(* CompleteByModel with its cache probe, routing, cost enrichment and cache *)
(* store, and the explicit-name operations Complete and Stream.             *)
(*                                                                         *)
(* Strings are sequences of characters; a character is a natural number,   *)
(* 0 is the space the echo provider puts between words.                     *)
(***************************************************************************)
EXTENDS Integers, Sequences, FiniteSets, TLC

\* ------------------------------------------------------------------ bounds
MaxEvents == 3
MaxWords == 2

\* ------------------------------------------------------- program constants
chunkSize == 50
domainChunksCap == 1

\* prices per 1K tokens, in units of 0.0001 USD
gpt4InputCostPer1K == 300
gpt4OutputCostPer1K == 600
gpt4TurboInputCostPer1K == 100
gpt4TurboOutputCostPer1K == 300
gpt35TurboInputCostPer1K == 5
gpt35TurboOutputCostPer1K == 15
echo4InputCostPer1K == 0
echo4OutputCostPer1K == 0

None == [none |-> TRUE]

\* ------------------------------------------------------------------- state
VARIABLES
    cacheOn,          \* g.cache != nil
    earlier,          \* the relayed stream that came before the one followed, None if none
    store,            \* the cache entry for the request's fingerprint, or None
    setCalls,         \* every cache.Set invocation of the last operation, in order
    op,               \* the last gateway operation called, "none" before the first
    providerName,     \* the provider name given to Complete or Stream, "" otherwise
    calls,            \* the collaborator calls the last operation made, in order
    getResult,        \* what cache.Get returned to the last operation, None if not called
    provResult,       \* what provider.Complete returned to it, None if not called
    costResult,       \* what cost.Calculate returned to it, None if not called
    storeErr,         \* the error storeInCache got from cache.Set, "none" if not called
    result,           \* what the last buffered operation returned, None on error
    req,              \* the request of the last operation
    callErr,          \* error returned by the last operation ("nil" on success)
    path,             \* "idle" | "failed" | "direct" | "relay" | "replay"
    provider,         \* name of the routed provider, "none" before routing
    consumerKind,     \* "handler" (SSE select loop) | "range" (for ... range chunks)
    cancelled,        \* ctx.Done() is closed
    cancelEarly,      \* ctx was cancelled before the provider had sent a terminal chunk
    cancelBetween,    \* ctx was cancelled after a non-terminal chunk was received
    provPc, provCur, provIdx, sdkErr,
    upBuf, upClosed, upCloses, upSent, bridgeEnd,
    relayPc, relayCur, contentBuilder, lastError,
    replayPc, replayI, replayResp,
    outClosed, outCloses,
    consPc, received, recvAfterCancel, sawClose,
    providers,        \* Registry.providers: provider name -> provider
    modelToProvider,  \* Registry.modelToProvider: model -> provider name
    muWriter,         \* the caller holding Registry.mu for writing, "none" if nobody
    muReaders,        \* the callers holding Registry.mu for reading
    regPc, regArg, regLeft, regRet,   \* the Register calls in progress, per caller
    regWrote,         \* whether the caller's Register call has written to the registry
    regOrder,         \* the names inserted in the name table, in order
    lookPc, lookOp, lookArg, lookRet, \* the lookup in progress
    embedOf,          \* the embedding backend: query text -> vector
    index,            \* the records of the vector index
    latest,           \* per query text, the response of the last Set that stored it
    svcOp, svcReq, svcRet, \* the call of the cache service that is returning, and its result
    ftIndex,          \* the search index of the Redis server, None when absent
    vs,               \* the VectorSearch adapter, None before construction
    vsErr,            \* the error of the last NewVectorSearch
    searchArg,        \* the threshold and the documents of the last VectorSearch.Search
    searchRet         \* the results of the last VectorSearch.Search

sessVars == <<cacheOn, earlier, req, callErr, path, provider, consumerKind>>
ctxVars == <<cancelled, cancelEarly, cancelBetween>>
cacheVars == <<store, setCalls>>
gwVars == <<op, providerName, calls, getResult, provResult, costResult, storeErr, result>>
provVars == <<provPc, provCur, provIdx, sdkErr, upCloses, bridgeEnd>>
upVars == <<upBuf, upClosed, upSent>>
relayVars == <<relayPc, relayCur, contentBuilder, lastError>>
replayVars == <<replayPc, replayI, replayResp>>
outVars == <<outClosed, outCloses>>
consVars == <<consPc, received, recvAfterCancel, sawClose>>

regVars == <<providers, modelToProvider, muWriter, muReaders, regPc, regArg, regLeft, regRet,
             regWrote, regOrder, lookPc, lookOp, lookArg, lookRet>>
svcVars == <<embedOf, index, latest, svcOp, svcReq, svcRet>>

adVars == <<ftIndex, vs, vsErr, searchArg, searchRet>>

compVars == <<regVars, svcVars, adVars>>

vars == <<sessVars, gwVars, compVars, ctxVars, cacheVars, provVars, upVars, relayVars, replayVars, outVars, consVars>>

\* ----------------------------------------------------------------- helpers
Iota(n) == [i \in 1..n |-> i]

Min(a, b) == IF a < b THEN a ELSE b

\* content[i:end] of a Go string, i and end zero-based, end exclusive
Slice(s, i, end) == SubSeq(s, i + 1, end)

IsPrefix(s, t) == Len(s) <= Len(t) /\ SubSeq(t, 1, Len(s)) = s

StreamChunk(delta, done, err) == [Delta |-> delta, Done |-> done, Error |-> err]

\* a chunk that ends a stream for its reader: done=true or error # nil
Terminal(c) == c.Done \/ c.Error # "nil"

TerminalCount(cs) == Cardinality({i \in 1..Len(cs) : Terminal(cs[i])})

ZeroUsage == [PromptTokens |-> 0, CompletionTokens |-> 0, TotalTokens |-> 0, Cost |-> 0]

CompletionResponse(model, prov, content, usage) ==
    [Model |-> model, Provider |-> prov, Content |-> content, Usage |-> usage]

\* the requests a client can send: the echo model with 0..MaxWords words of
\* echo content, an OpenAI model, a model nobody supports, the empty model
Requests ==
    {[Model |-> "echo4", Fields |-> n] : n \in 0..MaxWords}
    \cup {[Model |-> m, Fields |-> 1] : m \in {"gpt-4", "no-such-model", ""}}

Usage(prompt, completion, cost) ==
    [PromptTokens |-> prompt, CompletionTokens |-> completion,
     TotalTokens |-> prompt + completion, Cost |-> cost]

\* the pricing table main fills from openai.RegisterPricing and
\* echo.RegisterPricing
Pricing ==
    [m \in {"gpt-4", "gpt-4-turbo", "gpt-3.5-turbo", "echo4"} |->
        CASE m = "gpt-4" -> [InputCostPer1K |-> gpt4InputCostPer1K, OutputCostPer1K |-> gpt4OutputCostPer1K]
          [] m = "gpt-4-turbo" -> [InputCostPer1K |-> gpt4TurboInputCostPer1K, OutputCostPer1K |-> gpt4TurboOutputCostPer1K]
          [] m = "gpt-3.5-turbo" -> [InputCostPer1K |-> gpt35TurboInputCostPer1K, OutputCostPer1K |-> gpt35TurboOutputCostPer1K]
          [] m = "echo4" -> [InputCostPer1K |-> echo4InputCostPer1K, OutputCostPer1K |-> echo4OutputCostPer1K]]

\* GetPricing when every model gets the price of gpt-4-turbo
GetPricing_TurboForAll(model) ==
    IF model \in DOMAIN Pricing THEN Pricing["gpt-4-turbo"] ELSE None

\* InMemoryPricingRegistry.GetPricing: the entry, or None for "pricing not found"
GetPricing(model) == IF model \in DOMAIN Pricing THEN Pricing[model] ELSE None

\* Calculate when a model without a price is an error
Calculate_UnknownModelFails(model, usage) ==
    IF model = "" THEN [Cost |-> 0, Err |-> "model cannot be empty"]
    ELSE IF GetPricing(model) = None THEN [Cost |-> 0, Err |-> "pricing not found"]
    ELSE [Cost |-> usage.PromptTokens * GetPricing(model).InputCostPer1K
                   + usage.CompletionTokens * GetPricing(model).OutputCostPer1K,
          Err |-> "nil"]

\* StandardCostCalculator.Calculate. A cost is in units of 0.0000001 USD, so
\* that tokens / 1000 * (price per 1K in 0.0001 USD) is tokens * price.
Calculate(model, usage) ==
    IF model = "" THEN [Cost |-> 0, Err |-> "model cannot be empty"]
    ELSE IF GetPricing(model) = None THEN [Cost |-> 0, Err |-> "nil"]
    ELSE [Cost |-> usage.PromptTokens * GetPricing(model).InputCostPer1K
                   + usage.CompletionTokens * GetPricing(model).OutputCostPer1K,
          Err |-> "nil"]

\* entries a buffered CompleteByModel can have left in the cache
CachedLens == {0, 1, chunkSize, chunkSize + 1, 2 * chunkSize + 1}

StoredResponses ==
    {CompletionResponse("gpt-4", "openai", Iota(n),
        Usage(1, 1, Calculate("gpt-4", Usage(1, 1, 0)).Cost)) :
        n \in CachedLens}

\* the providers main registers, with their supported models
supportedModels ==
    [openai |-> {"gpt-4", "gpt-4-turbo", "gpt-4-turbo-preview", "gpt-3.5-turbo", "gpt-3.5-turbo-16k"},
     echo |-> {"echo4"}]

\* Registry.GetByModel over the reverse index built by Register
GetByModel(model) ==
    IF model \in supportedModels.echo THEN "echo"
    ELSE IF model \in supportedModels.openai THEN "openai"
    ELSE "none"

\* Get when the name is not used to pick the provider
Get_AnyProvider(name) ==
    IF name \in DOMAIN supportedModels THEN "openai" ELSE "none"

\* Registry.Get over the name table; "none" stands for the not-found error
Get(name) ==
    IF name \in DOMAIN supportedModels THEN name ELSE "none"

\* the explicit-name calls a client can make: a provider name and a request
ExplicitCalls ==
    {[Name |-> "echo", Req |-> [Model |-> "echo4", Fields |-> n]] : n \in 0..MaxWords}
    \cup {[Name |-> nm, Req |-> [Model |-> "gpt-4", Fields |-> 1]] :
            nm \in {"openai", "echo", "no-such-provider", ""}}
    \cup {[Name |-> "openai", Req |-> None]}

\* ---------------------------------------------------------------- registry
\* the goroutines that call Register, and the one that looks providers up
Registrars == {"r1", "r2"}

\* the providers handed to Register: A and B share the model m2, a second
\* object carries the name A, D and E enumerate no model and accept m4 in
\* IsModelSupported, one provider has an empty name; None is the nil provider
ProviderObjects ==
    {[Name |-> "A", Models |-> {"m1", "m2"}, Dynamic |-> {}],
     [Name |-> "B", Models |-> {"m2", "m3"}, Dynamic |-> {}],
     [Name |-> "A", Models |-> {"m3"}, Dynamic |-> {}],
     [Name |-> "D", Models |-> {}, Dynamic |-> {"m4"}],
     [Name |-> "E", Models |-> {}, Dynamic |-> {"m4"}],
     [Name |-> "", Models |-> {"m1"}, Dynamic |-> {}]}

LookupModels == {"m1", "m2", "m3", "m4", "m5", ""}

LookupNames == {"A", "B", "D", "Z", ""}

\* provider.IsModelSupported(model)
IsModelSupported(p, model) == model \in p.Models \cup p.Dynamic

EmptyMap == [x \in {} |-> x]

NoResult == [Provider |-> "none", Err |-> "none", Names |-> <<>>]

RegistryAtRest ==
    /\ muWriter = "none"
    /\ muReaders = {}
    /\ regPc = [r \in Registrars |-> "idle"]
    /\ regArg = [r \in Registrars |-> None]
    /\ regLeft = [r \in Registrars |-> {}]
    /\ regRet = [r \in Registrars |-> "none"]
    /\ regWrote = [r \in Registrars |-> FALSE]
    /\ lookPc = "idle"
    /\ lookOp = "none"
    /\ lookArg = ""
    /\ lookRet = NoResult

\* the registry as main leaves it: echo, then openai, each with its models
RegistryWired ==
    /\ providers = [n \in DOMAIN supportedModels |->
                        [Name |-> n, Models |-> supportedModels[n], Dynamic |-> {}]]
    /\ modelToProvider = [m \in supportedModels.echo \cup supportedModels.openai |->
                            IF m \in supportedModels.openai THEN "openai" ELSE "echo"]
    /\ regOrder = <<"echo", "openai">>
    /\ RegistryAtRest

\* NewRegistry()
RegistryEmpty ==
    /\ providers = EmptyMap
    /\ modelToProvider = EmptyMap
    /\ regOrder = <<>>
    /\ RegistryAtRest

\* ----------------------------------------------------------- cache service
\* SimilarityThreshold, in hundredths
threshold == 85

\* the requests handed to the cache service: a conversation on two models,
\* a longer conversation, and for each a plain request and one that differs
\* in temperature, in maxTokens, in metadata or in stream
Prompts ==
    {[Model |-> "gpt-4", Messages |-> <<[Role |-> "user", Content |-> "Hi"]>>],
     [Model |-> "gpt-3.5-turbo", Messages |-> <<[Role |-> "user", Content |-> "Hi"]>>],
     [Model |-> "gpt-4", Messages |-> <<[Role |-> "user", Content |-> "Hi"],
                                        [Role |-> "assistant", Content |-> "Yo"]>>]}

Sampling ==
    {[Temperature |-> 0, MaxTokens |-> 0, Metadata |-> {}, Stream |-> FALSE],
     [Temperature |-> 7, MaxTokens |-> 0, Metadata |-> {}, Stream |-> FALSE],
     [Temperature |-> 0, MaxTokens |-> 100, Metadata |-> {}, Stream |-> FALSE],
     [Temperature |-> 0, MaxTokens |-> 0, Metadata |-> {"user_id"}, Stream |-> FALSE],
     [Temperature |-> 0, MaxTokens |-> 0, Metadata |-> {}, Stream |-> TRUE]}

CacheRequests ==
    {[Model |-> p.Model, Messages |-> p.Messages, Temperature |-> o.Temperature,
      MaxTokens |-> o.MaxTokens, Metadata |-> o.Metadata, Stream |-> o.Stream] :
        p \in Prompts, o \in Sampling}

\* the responses handed to Set: two ids, with and without a cost
CacheResponses == {[ID |-> "r1", Cost |-> 0], [ID |-> "r2", Cost |-> 900]}

RECURSIVE JoinMessages(_)
\* strings.Join(messages, " ") over fmt.Sprintf("%s: %s", msg.Role, msg.Content)
JoinMessages(msgs) ==
    IF msgs = <<>> THEN ""
    ELSE IF Len(msgs) = 1 THEN msgs[1].Role \o ": " \o msgs[1].Content
    ELSE msgs[1].Role \o ": " \o msgs[1].Content \o " " \o JoinMessages(Tail(msgs))

\* buildQueryText with the metadata appended to the text
buildQueryText_WithMetadata(r) ==
    "model: " \o r.Model \o " | " \o "messages: " \o JoinMessages(r.Messages)
        \o (IF r.Metadata = {} THEN "" ELSE " | metadata")

\* SemanticCacheService.buildQueryText
buildQueryText(r) ==
    "model: " \o r.Model \o " | " \o "messages: " \o JoinMessages(r.Messages)

\* SemanticCacheService.generateCacheKey; the SHA-256 digest stays symbolic:
\* equal for equal texts and different for different texts
generateCacheKey(queryText) == [Prefix |-> "cache:", Sha256 |-> <<"sha256", queryText>>]

QueryTexts == {buildQueryText(r) : r \in CacheRequests}

\* the vectors of the embedding backend, and their similarity in hundredths
\* (1 - cosine distance): equal vectors 100, neighbours 90, 1 and 3 only 80
Vectors == {1, 2, 3}

Similarity(a, b) == 100 - 10 * (IF a > b THEN a - b ELSE b - a)

\* json.Marshal of a response: usage.cost is omitted when it is zero
Marshal(resp) ==
    IF resp.Cost = 0 THEN [id |-> resp.ID] ELSE [id |-> resp.ID, cost |-> resp.Cost]

\* json.Unmarshal of a stored payload
Unmarshal(data) ==
    [ID |-> data.id, Cost |-> IF "cost" \in DOMAIN data THEN data.cost ELSE 0]

NoReturn == [Resp |-> None, Similarity |-> 0, Err |-> "none"]

ServiceAtRest ==
    /\ index = {}
    /\ latest = [t \in QueryTexts |-> None]
    /\ svcOp = "none"
    /\ svcReq = None
    /\ svcRet = NoReturn

\* the cache service is not exercised: one embedding backend, no call
ServiceUnused ==
    /\ embedOf = [t \in QueryTexts |-> 1]
    /\ ServiceAtRest

\* ------------------------------------------------------ vector index adapter
\* the dimensions of the embedding models
embeddingDimensionStandard == 1536

embeddingDimensionLarge == 3072

Dimensions == {embeddingDimensionStandard, embeddingDimensionLarge}

\* the schema FTCreate gives the index
Schema(dim) ==
    [Prefix |-> "cache:", Type |-> "FLOAT32", Dim |-> dim, DistanceMetric |-> "COSINE"]

\* the limit the cache service passes to Search
searchLimit == 1

\* the numbers a score field can hold, in hundredths: a cosine distance
\* between 0 and 2, or a rounding error of the backend just under 0
Scores == {-1, 0, 10, 15, 16, 100, 200}

\* the documents of an FTSearchResult: the score field holds a number, a text
\* that is no number, or is missing; the data field is there or not
Documents ==
    [Field : {"number"}, Score : Scores, HasData : BOOLEAN]
    \cup [Field : {"unparsable", "missing"}, Score : {0}, HasData : BOOLEAN]

\* the thresholds Search is called with, in hundredths
Thresholds == {0, threshold, 100}

NoSearch == [Threshold |-> 0, Docs |-> <<>>]

AdapterAtRest ==
    /\ vs = None
    /\ vsErr = "none"
    /\ searchArg = NoSearch
    /\ searchRet = <<>>

\* the adapter is not exercised: the server has no index
AdapterUnused ==
    /\ ftIndex = None
    /\ AdapterAtRest

\* ------------------------------------------------------------------- Init
GatewayInit ==
    /\ cacheOn \in BOOLEAN
    /\ earlier = None
    /\ store \in (IF cacheOn THEN {None} \cup StoredResponses ELSE {None})
    /\ setCalls = <<>>
    /\ op = "none"
    /\ providerName = ""
    /\ calls = <<>>
    /\ getResult = None
    /\ provResult = None
    /\ costResult = None
    /\ storeErr = "none"
    /\ result = None
    /\ req = None
    /\ callErr = "nil"
    /\ path = "idle"
    /\ provider = "none"
    /\ consumerKind = "range"
    /\ cancelled = FALSE
    /\ cancelEarly = FALSE
    /\ cancelBetween = FALSE
    /\ provPc = "idle"
    /\ provCur = None
    /\ provIdx = 0
    /\ sdkErr = "nil"
    /\ upBuf = <<>>
    /\ upClosed = FALSE
    /\ upCloses = 0
    /\ upSent = <<>>
    /\ bridgeEnd = "none"
    /\ relayPc = "idle"
    /\ relayCur = None
    /\ contentBuilder = <<>>
    /\ lastError = "nil"
    /\ replayPc = "idle"
    /\ replayI = 0
    /\ replayResp = None
    /\ outClosed = FALSE
    /\ outCloses = 0
    /\ consPc = "idle"
    /\ received = <<>>
    /\ recvAfterCancel = 0
    /\ sawClose = FALSE

Init == GatewayInit /\ RegistryWired /\ ServiceUnused /\ AdapterUnused

\* ---------------------------------------------------------- StreamByModel
\* cache.Get as tryGetStreamFromCache sees it: a hit on the stored entry, the
\* miss sentinel, or any other error
GetOutcomes == (IF store # None THEN {"hit"} ELSE {}) \cup {"miss", "error"}

\* what SemanticCacheService.Get returns: on a hit the stored response as
\* json.Unmarshal rebuilds it (every field as stored, the cost included)
CacheGet(g) == [Outcome |-> g, Response |-> IF g = "hit" THEN store ELSE None]

\* the cache probe of the model-routed operations: nothing without a cache
ProbeCalls == IF cacheOn THEN <<"cache.Get">> ELSE <<>>

ProbeResult(g) == IF cacheOn THEN CacheGet(g) ELSE None

\* ValidationErr when the model of the request is not looked at
ValidationErr_ModelUnchecked(r) ==
    IF r = None THEN "request cannot be nil" ELSE "nil"

\* the argument checks that open CompleteByModel and StreamByModel
ValidationErr(r) ==
    IF r = None THEN "request cannot be nil"
    ELSE IF r.Model = "" THEN "model cannot be empty"
    ELSE "nil"

\* ProbeFatal when a failing cache.Get ends the request
ProbeFatal_OnError(g) == cacheOn /\ g = "error"

\* whether the cache probe makes the operation fail: a failing cache.Get is
\* logged and the probe answers not found
ProbeFatal(g) == FALSE

\* Found when a hit is not taken
Found_Never(g) == FALSE

\* the found result of tryGetFromCache and tryGetStreamFromCache
Found(g) == cacheOn /\ g = "hit"

\* streamFromCache: start the replay task on an unbuffered channel
StartReplay(k) ==
    /\ path' = "replay"
    /\ callErr' = "nil"
    /\ provider' = "none"
    /\ replayPc' = "loop"
    /\ replayI' = 0
    /\ replayResp' = [store EXCEPT !.Usage.Cost = 0]
    /\ consPc' = "select"
    /\ consumerKind' = k
    /\ UNCHANGED <<provVars, relayVars>>

\* provider.Stream of provider p, then wrapStreamWithCache when wrap
StartProvider(p, r, k, wrap) ==
    /\ provider' = p
    /\ callErr' = "nil"
    /\ path' = IF wrap /\ cacheOn THEN "relay" ELSE "direct"
    /\ provPc' = IF p = "openai" THEN "next"
                 ELSE IF r.Fields = 0 THEN "final" ELSE "word"
    /\ relayPc' = IF wrap /\ cacheOn THEN "recv" ELSE "idle"
    /\ consPc' = "select"
    /\ consumerKind' = k
    /\ UNCHANGED <<provCur, provIdx, sdkErr, upCloses, bridgeEnd>>
    /\ UNCHANGED <<relayCur, contentBuilder, lastError, replayVars>>

FailCall(e) ==
    /\ path' = "failed"
    /\ callErr' = e
    /\ UNCHANGED <<provider, consumerKind, provVars, relayVars, replayVars, consPc>>

\* the frame of an operation that returns a chunk channel or an error
StreamFrame ==
    /\ result' = None
    /\ provResult' = None
    /\ costResult' = None
    /\ storeErr' = "none"
    /\ setCalls' = <<>>
    /\ UNCHANGED <<cacheOn, earlier, store, ctxVars, upVars, outVars, received, recvAfterCancel, sawClose, compVars>>

\* one streaming session is followed, started on the initial cache (op =
\* "none"); the buffered operations may precede one another
StreamByModel ==
    /\ path = "idle"
    /\ op = "none"
    /\ \E r \in Requests \cup {None}, k \in {"handler", "range"}, g \in GetOutcomes :
        /\ req' = r
        /\ op' = "StreamByModel"
        /\ providerName' = ""
        /\ IF ValidationErr(r) # "nil"
           THEN FailCall(ValidationErr(r)) /\ calls' = <<>> /\ getResult' = None
           ELSE IF ProbeFatal(g)
           THEN /\ FailCall("cache get failed")
                /\ calls' = ProbeCalls
                /\ getResult' = ProbeResult(g)
           ELSE IF Found(g)
           THEN /\ StartReplay(k)
                /\ calls' = ProbeCalls
                /\ getResult' = ProbeResult(g)
           ELSE IF GetByModel(r.Model) = "none"
           THEN /\ FailCall("provider routing failed")
                /\ calls' = ProbeCalls \o <<"registry.GetByModel">>
                /\ getResult' = ProbeResult(g)
           ELSE /\ StartProvider(GetByModel(r.Model), r, k, TRUE)
                /\ calls' = ProbeCalls \o <<"registry.GetByModel", "provider.Stream">>
                /\ getResult' = ProbeResult(g)
    /\ StreamFrame

\* a later StreamByModel for the request of a relayed stream that has completed:
\* the call whose probe hits is followed, on a new context and a new channel;
\* earlier keeps what the first consumer received and the Set of its relay
StreamByModelAgain ==
    /\ op = "StreamByModel"
    /\ path = "relay"
    /\ relayPc = "done"
    /\ sawClose
    /\ earlier = None
    /\ earlier' = [Received |-> received, SetCalls |-> setCalls]
    /\ \E k \in {"handler", "range"}, g \in GetOutcomes :
        /\ ValidationErr(req) = "nil"
        /\ ~ProbeFatal(g)
        /\ Found(g)
        /\ path' = "replay"
        /\ callErr' = "nil"
        /\ provider' = "none"
        /\ replayPc' = "loop"
        /\ replayI' = 0
        /\ replayResp' = [store EXCEPT !.Usage.Cost = 0]
        /\ consPc' = "select"
        /\ consumerKind' = k
        /\ calls' = ProbeCalls
        /\ getResult' = ProbeResult(g)
    /\ setCalls' = <<>>
    /\ cancelled' = FALSE
    /\ cancelEarly' = FALSE
    /\ cancelBetween' = FALSE
    /\ provPc' = "idle"
    /\ provCur' = None
    /\ provIdx' = 0
    /\ sdkErr' = "nil"
    /\ upCloses' = 0
    /\ bridgeEnd' = "none"
    /\ upBuf' = <<>>
    /\ upClosed' = FALSE
    /\ upSent' = <<>>
    /\ relayPc' = "idle"
    /\ relayCur' = None
    /\ contentBuilder' = <<>>
    /\ lastError' = "nil"
    /\ outClosed' = FALSE
    /\ outCloses' = 0
    /\ received' = <<>>
    /\ recvAfterCancel' = 0
    /\ sawClose' = FALSE
    /\ UNCHANGED <<cacheOn, req, op, providerName, provResult, costResult, storeErr, result>>
    /\ UNCHANGED <<store, compVars>>

\* the error of Provider.Stream before any chunk: echo refuses a model it does
\* not support
ProviderStreamErr(p, r) ==
    IF p = "echo" /\ r.Model \notin supportedModels.echo THEN "model is not supported by echo provider"
    ELSE "nil"

\* GatewayService.Stream: the provider by name, its channel handed back as is
Stream ==
    /\ path = "idle"
    /\ op = "none"
    /\ \E c \in ExplicitCalls, k \in {"handler", "range"} :
        /\ req' = c.Req
        /\ providerName' = c.Name
        /\ op' = "Stream"
        /\ getResult' = None
        /\ IF c.Req = None
           THEN FailCall("request cannot be nil") /\ calls' = <<>>
           ELSE IF c.Name = ""
           THEN FailCall("provider name cannot be empty") /\ calls' = <<>>
           ELSE IF Get(c.Name) = "none"
           THEN FailCall("provider not found") /\ calls' = <<"registry.Get">>
           ELSE IF ProviderStreamErr(Get(c.Name), c.Req) # "nil"
           THEN /\ FailCall("failed to stream from provider")
                /\ calls' = <<"registry.Get", "provider.Stream">>
           ELSE /\ StartProvider(Get(c.Name), c.Req, k, FALSE)
                /\ calls' = <<"registry.Get", "provider.Stream">>
    /\ StreamFrame

\* ------------------------------------------------------- buffered operations
\* buildEchoContent for a request whose messages hold n words: every word is
\* followed by white space (0), the last one by the newline that ends its
\* message
RECURSIVE EchoContent(_)
EchoContent(n) == IF n = 0 THEN <<>> ELSE EchoContent(n - 1) \o <<n, 0>>

\* what the OpenAI API can answer to Chat.Completions.New: a model name (the
\* requested one, a dated one without pricing, or none) and a content
UpstreamCompletions ==
    {[Model |-> "gpt-4", Content |-> Iota(n)] : n \in CachedLens}
    \cup {[Model |-> m, Content |-> Iota(1)] : m \in {"gpt-4-0613", ""}}

\* Provider.Complete of provider p: the outcomes it can return for request r
ProviderComplete(p, r) ==
    IF p = "echo"
    THEN IF r.Model \notin supportedModels.echo
         THEN {[Err |-> "model is not supported by echo provider", Resp |-> None]}
         ELSE {[Err |-> "nil",
                Resp |-> CompletionResponse(r.Model, "echo", EchoContent(r.Fields),
                                            Usage(r.Fields, r.Fields, 0))]}
    ELSE {[Err |-> "OpenAI API call failed", Resp |-> None]}
         \cup {[Err |-> "nil",
                 Resp |-> CompletionResponse(u.Model, "openai", u.Content, Usage(1, 1, 0))] :
                 u \in UpstreamCompletions}

\* CachedResult when the cost of the cached response is left as stored
CachedResult_KeepsCost(cached) ==
    [Response |-> cached.Response, CacheInfo |-> [Hit |-> TRUE]]

\* tryGetFromCache on a hit: cached.Response.Usage.Cost = 0.0, then the result
\* with the cache metadata
CachedResult(cached) ==
    [Response |-> [cached.Response EXCEPT !.Usage.Cost = 0], CacheInfo |-> [Hit |-> TRUE]]

\* Enriched when a failing cost.Calculate leaves the cost unset
Enriched_FailsOpen(resp) ==
    [resp EXCEPT !.Usage.Cost = IF Calculate(resp.Model, resp.Usage).Err = "nil"
                                THEN Calculate(resp.Model, resp.Usage).Cost ELSE -1]

\* cost, _ := Calculate(response.Model, response.Usage); response.Usage.Cost = cost
Enriched(resp) == [resp EXCEPT !.Usage.Cost = Calculate(resp.Model, resp.Usage).Cost]

\* MissInfo when the metadata is attached without looking at g.cache
MissInfo_Always == [Hit |-> FALSE]

\* the cache metadata of a result that did not come from the cache
MissInfo == IF cacheOn THEN [Hit |-> FALSE] ELSE None

\* an operation that returns an error after the calls cs
BufferedFail(e, cs) ==
    /\ callErr' = e
    /\ result' = None
    /\ calls' = cs
    /\ costResult' = None
    /\ storeErr' = "none"
    /\ setCalls' = <<>>
    /\ UNCHANGED store

\* StoreInCache when the response is handed over without its cost
StoreInCache_BeforeCost(r, response) ==
    IF cacheOn
    THEN /\ setCalls' = <<[Req |-> r, Resp |-> [response EXCEPT !.Usage.Cost = 0]]>>
         /\ \/ store' = [response EXCEPT !.Usage.Cost = 0] /\ storeErr' = "nil"
            \/ store' = store /\ storeErr' = "failed to index in cache"
    ELSE /\ setCalls' = <<>>
         /\ storeErr' = "none"
         /\ UNCHANGED store

\* AfterStore when the error of cache.Set is returned to the caller
AfterStore_Propagates(e) == IF e \in {"none", "nil"} THEN "nil" ELSE e

\* the error CompleteByModel is left with after storeInCache, which has no
\* result: the error of cache.Set is only logged
AfterStore(e) == "nil"

\* storeInCache: cache.Set with the response; its error is only logged
StoreInCache(r, response) ==
    IF cacheOn
    THEN /\ setCalls' = <<[Req |-> r, Resp |-> response]>>
         /\ \/ store' = response /\ storeErr' = "nil"
            \/ store' = store /\ storeErr' = "failed to index in cache"
    ELSE /\ setCalls' = <<>>
         /\ storeErr' = "none"
         /\ UNCHANGED store

BufferedFrame ==
    UNCHANGED <<cacheOn, earlier, path, provider, consumerKind, ctxVars, provVars, upVars, relayVars, replayVars, outVars, consVars, compVars>>

CompleteByModel ==
    /\ path = "idle"
    /\ \E r \in Requests \cup {None}, g \in GetOutcomes :
        /\ req' = r
        /\ op' = "CompleteByModel"
        /\ providerName' = ""
        /\ IF ValidationErr(r) # "nil"
           THEN /\ BufferedFail(ValidationErr(r), <<>>)
                /\ getResult' = None
                /\ provResult' = None
           ELSE IF ProbeFatal(g)
           THEN /\ BufferedFail("cache get failed", ProbeCalls)
                /\ getResult' = ProbeResult(g)
                /\ provResult' = None
           ELSE IF Found(g)
           THEN /\ getResult' = ProbeResult(g)
                /\ result' = CachedResult(CacheGet(g))
                /\ callErr' = "nil"
                /\ calls' = ProbeCalls
                /\ provResult' = None
                /\ costResult' = None
                /\ storeErr' = "none"
                /\ setCalls' = <<>>
                /\ UNCHANGED store
           ELSE IF GetByModel(r.Model) = "none"
           THEN /\ BufferedFail("provider routing failed", ProbeCalls \o <<"registry.GetByModel">>)
                /\ getResult' = ProbeResult(g)
                /\ provResult' = None
           ELSE \E o \in ProviderComplete(GetByModel(r.Model), r) :
                /\ getResult' = ProbeResult(g)
                /\ provResult' = o
                /\ IF o.Err # "nil"
                   THEN BufferedFail("completion failed",
                            ProbeCalls \o <<"registry.GetByModel", "provider.Complete">>)
                   ELSE /\ costResult' = Calculate(o.Resp.Model, o.Resp.Usage)
                        /\ StoreInCache(r, Enriched(o.Resp))
                        /\ result' = [Response |-> Enriched(o.Resp), CacheInfo |-> MissInfo]
                        /\ callErr' = AfterStore(storeErr')
                        /\ calls' = ProbeCalls
                                \o <<"registry.GetByModel", "provider.Complete", "cost.Calculate">>
                                \o (IF cacheOn THEN <<"cache.Set">> ELSE <<>>)
    /\ BufferedFrame

\* GatewayService.Complete: the provider by name, no cache; it returns the
\* bare response, held here as a result without cache metadata
Complete ==
    /\ path = "idle"
    /\ \E c \in ExplicitCalls :
        /\ req' = c.Req
        /\ providerName' = c.Name
        /\ op' = "Complete"
        /\ getResult' = None
        /\ IF c.Req = None
           THEN BufferedFail("request cannot be nil", <<>>) /\ provResult' = None
           ELSE IF c.Name = ""
           THEN BufferedFail("provider name cannot be empty", <<>>) /\ provResult' = None
           ELSE IF Get(c.Name) = "none"
           THEN BufferedFail("provider not found", <<"registry.Get">>) /\ provResult' = None
           ELSE \E o \in ProviderComplete(Get(c.Name), c.Req) :
                /\ provResult' = o
                /\ IF o.Err # "nil"
                   THEN BufferedFail("completion failed", <<"registry.Get", "provider.Complete">>)
                   ELSE /\ costResult' = Calculate(o.Resp.Model, o.Resp.Usage)
                        /\ result' = [Response |-> Enriched(o.Resp), CacheInfo |-> None]
                        /\ callErr' = "nil"
                        /\ calls' = <<"registry.Get", "provider.Complete", "cost.Calculate">>
                        /\ storeErr' = "none"
                        /\ setCalls' = <<>>
                        /\ UNCHANGED store
    /\ BufferedFrame

\* ------------------------------------------------------------ cancellation
\* the request context is cancelled: client disconnect, timeout, cancel()
Cancel ==
    /\ path \in {"direct", "relay", "replay"}
    /\ ~cancelled
    /\ cancelled' = TRUE
    /\ cancelEarly' = (TerminalCount(upSent) = 0)
    /\ cancelBetween' = (received # <<>> /\ TerminalCount(received) = 0 /\ consPc = "select")
    /\ UNCHANGED <<sessVars, gwVars, compVars, cacheVars, provVars, upVars, relayVars, replayVars, outVars, consVars>>

\* ----------------------------------------------------------------- readers
\* the SSE handler returns on an error chunk and on a done chunk; a range
\* loop keeps receiving until the channel is closed
ConsumerTake(c) ==
    /\ received' = Append(received, c)
    /\ recvAfterCancel' = recvAfterCancel + (IF cancelled THEN 1 ELSE 0)
    /\ consPc' = IF consumerKind = "handler" /\ (c.Error # "nil" \/ c.Done)
                 THEN "returned" ELSE "select"
    /\ UNCHANGED sawClose

\* for chunk := range chunks, the chunk is in hand before out <- chunk
RelayTake(c) ==
    /\ relayPc' = "send"
    /\ relayCur' = c
    /\ UNCHANGED <<contentBuilder, lastError>>

\* who reads the provider's channel: the relay, or the consumer directly
UpReceiverReady ==
    IF path = "relay" THEN relayPc = "recv" ELSE path = "direct" /\ consPc = "select"

UpReceive(c) ==
    IF path = "relay" THEN RelayTake(c) /\ UNCHANGED consVars
    ELSE ConsumerTake(c) /\ UNCHANGED relayVars

\* ------------------------------------------- OpenAI bridge (Provider.Stream)
\* what stream.Current() can hold for the k-th event: a chunk without
\* choices, or a first choice with a content fragment and a finish reason
SDKEvents(k) ==
    {[Choices |-> FALSE, Content |-> <<>>, Finish |-> FALSE]}
    \cup {[Choices |-> TRUE, Content |-> d, Finish |-> f] : d \in {<<>>, <<k>>}, f \in BOOLEAN}

UpHasRoom == Len(upBuf) < domainChunksCap

\* stream.Next(): another event, or the end of the stream with stream.Err()
\* nil, io.EOF or a failure (the SDK abandons the call on cancellation too)
BridgeNext ==
    /\ provider = "openai"
    /\ provPc = "next"
    /\ \/ /\ provIdx < MaxEvents
          /\ \E ev \in SDKEvents(provIdx + 1) : provCur' = ev
          /\ provIdx' = provIdx + 1
          /\ provPc' = "check"
          /\ UNCHANGED sdkErr
       \/ /\ \E e \in {"nil", "EOF", "failure"} : sdkErr' = e
          /\ provPc' = "err"
          /\ UNCHANGED <<provCur, provIdx>>
    /\ UNCHANGED <<sessVars, gwVars, compVars, ctxVars, cacheVars, upCloses, bridgeEnd, upVars, relayVars, replayVars, outVars, consVars>>

\* BridgeCheck when the cancellation branch leaves without closing the channel
BridgeCheck_NoClose ==
    /\ provider = "openai"
    /\ provPc = "check"
    /\ IF cancelled
       THEN /\ IF UpHasRoom
               THEN /\ upBuf' = Append(upBuf, StreamChunk(<<>>, FALSE, "canceled"))
                    /\ upSent' = Append(upSent, StreamChunk(<<>>, FALSE, "canceled"))
               ELSE UNCHANGED <<upBuf, upSent>>
            /\ provPc' = "done"
            /\ bridgeEnd' = "cancel"
            /\ UNCHANGED provCur
       ELSE /\ IF provCur.Choices
               THEN /\ provCur' = StreamChunk(provCur.Content, provCur.Finish, "nil")
                    /\ provPc' = "send"
               ELSE /\ provPc' = "next"
                    /\ UNCHANGED provCur
            /\ UNCHANGED <<upBuf, upSent, bridgeEnd>>
    /\ UNCHANGED <<sessVars, gwVars, compVars, ctxVars, cacheVars, provIdx, sdkErr, upCloses, upClosed, relayVars, replayVars, outVars, consVars>>

\* top of the loop: select { case <-ctx.Done(): non-blocking send; return
\* default: }, then chunk := stream.Current() and the choices test
BridgeCheck ==
    /\ provider = "openai"
    /\ provPc = "check"
    /\ IF cancelled
       THEN /\ IF UpHasRoom
               THEN /\ upBuf' = Append(upBuf, StreamChunk(<<>>, FALSE, "canceled"))
                    /\ upSent' = Append(upSent, StreamChunk(<<>>, FALSE, "canceled"))
               ELSE UNCHANGED <<upBuf, upSent>>
            /\ provPc' = "exit"
            /\ bridgeEnd' = "cancel"
            /\ UNCHANGED provCur
       ELSE /\ IF provCur.Choices
               THEN /\ provCur' = StreamChunk(provCur.Content, provCur.Finish, "nil")
                    /\ provPc' = "send"
               ELSE /\ provPc' = "next"
                    /\ UNCHANGED provCur
            /\ UNCHANGED <<upBuf, upSent, bridgeEnd>>
    /\ UNCHANGED <<sessVars, gwVars, compVars, ctxVars, cacheVars, provIdx, sdkErr, upCloses, upClosed, relayVars, replayVars, outVars, consVars>>

\* BridgeSend without the return that follows a done chunk
BridgeSend_NoReturn ==
    /\ provider = "openai"
    /\ provPc = "send"
    /\ UpHasRoom
    /\ upBuf' = Append(upBuf, provCur)
    /\ upSent' = Append(upSent, provCur)
    /\ provPc' = "next"
    /\ UNCHANGED <<sessVars, gwVars, compVars, ctxVars, cacheVars, provCur, provIdx, sdkErr, upCloses, bridgeEnd, upClosed, relayVars, replayVars, outVars, consVars>>

\* select { case domainChunks <- streamChunk: ...; if done { return }
BridgeSend ==
    /\ provider = "openai"
    /\ provPc = "send"
    /\ UpHasRoom
    /\ upBuf' = Append(upBuf, provCur)
    /\ upSent' = Append(upSent, provCur)
    /\ provPc' = IF provCur.Done THEN "exit" ELSE "next"
    /\ bridgeEnd' = IF provCur.Done THEN "finish" ELSE bridgeEnd
    /\ UNCHANGED <<sessVars, gwVars, compVars, ctxVars, cacheVars, provCur, provIdx, sdkErr, upCloses, upClosed, relayVars, replayVars, outVars, consVars>>

\* BridgeSendCancelled when the cancellation case only fires with room in the channel
BridgeSendCancelled_Blocking ==
    /\ provider = "openai"
    /\ provPc = "send"
    /\ cancelled
    /\ UpHasRoom
    /\ provPc' = "exit"
    /\ bridgeEnd' = "cancel"
    /\ UNCHANGED <<sessVars, gwVars, compVars, ctxVars, cacheVars, provCur, provIdx, sdkErr, upCloses, upVars, relayVars, replayVars, outVars, consVars>>

\* ... case <-ctx.Done(): return }
BridgeSendCancelled ==
    /\ provider = "openai"
    /\ provPc = "send"
    /\ cancelled
    /\ provPc' = "exit"
    /\ bridgeEnd' = "cancel"
    /\ UNCHANGED <<sessVars, gwVars, compVars, ctxVars, cacheVars, provCur, provIdx, sdkErr, upCloses, upVars, relayVars, replayVars, outVars, consVars>>

\* after the loop: stream.Err(); a failure is sent under
\* select { send | <-ctx.Done() | default }
BridgeErr ==
    /\ provider = "openai"
    /\ provPc = "err"
    /\ IF sdkErr \in {"nil", "EOF"}
       THEN /\ bridgeEnd' = "eof"
            /\ UNCHANGED <<upBuf, upSent>>
       ELSE /\ bridgeEnd' = "error"
            /\ \/ /\ UpHasRoom
                  /\ upBuf' = Append(upBuf, StreamChunk(<<>>, FALSE, "stream error"))
                  /\ upSent' = Append(upSent, StreamChunk(<<>>, FALSE, "stream error"))
               \/ /\ cancelled
                  /\ UNCHANGED <<upBuf, upSent>>
               \/ /\ ~UpHasRoom
                  /\ ~cancelled
                  /\ UNCHANGED <<upBuf, upSent>>
    /\ provPc' = "exit"
    /\ UNCHANGED <<sessVars, gwVars, compVars, ctxVars, cacheVars, provCur, provIdx, sdkErr, upCloses, upClosed, relayVars, replayVars, outVars, consVars>>

\* defer close(domainChunks) / defer close(chunks)
ProviderClose ==
    /\ provPc = "exit"
    /\ upClosed' = TRUE
    /\ upCloses' = upCloses + 1
    /\ provPc' = "done"
    /\ UNCHANGED <<sessVars, gwVars, compVars, ctxVars, cacheVars, provCur, provIdx, sdkErr, bridgeEnd, upBuf, upSent, relayVars, replayVars, outVars, consVars>>

\* ---------------------------------------------- echo provider (Provider.Stream)
\* the i-th word (1-based) of strings.Fields(echoContent), with the space
\* added between words
EchoDelta(i, n) == IF i < n THEN <<i, 0>> ELSE <<i>>

EchoFrame == UNCHANGED <<sessVars, gwVars, compVars, ctxVars, cacheVars, provCur, sdkErr, upCloses, bridgeEnd, upBuf, upClosed, replayVars, outVars>>

\* select { ... case chunks <- StreamChunk{Delta: delta}: time.Sleep }
EchoWordSend ==
    /\ provider = "echo"
    /\ provPc = "word"
    /\ UpReceiverReady
    /\ UpReceive(StreamChunk(EchoDelta(provIdx + 1, req.Fields), FALSE, "nil"))
    /\ upSent' = Append(upSent, StreamChunk(EchoDelta(provIdx + 1, req.Fields), FALSE, "nil"))
    /\ provIdx' = provIdx + 1
    /\ provPc' = IF provIdx + 1 = req.Fields THEN "final" ELSE "word"
    /\ EchoFrame

\* select { case <-ctx.Done(): ... the send that follows is EchoCancelSend
EchoWordCancelled ==
    /\ provider = "echo"
    /\ provPc = "word"
    /\ cancelled
    /\ provPc' = "cancelSend"
    /\ UNCHANGED <<provIdx, upSent, relayVars, consVars>>
    /\ EchoFrame

\* chunks <- StreamChunk{Delta: "", Done: true, Error: ctx.Err()}; return
EchoCancelSend ==
    /\ provider = "echo"
    /\ provPc = "cancelSend"
    /\ UpReceiverReady
    /\ UpReceive(StreamChunk(<<>>, TRUE, "canceled"))
    /\ upSent' = Append(upSent, StreamChunk(<<>>, TRUE, "canceled"))
    /\ provPc' = "exit"
    /\ UNCHANGED provIdx
    /\ EchoFrame

\* EchoFinalSend when the done chunk also carries an error
EchoFinalSend_DoneWithError ==
    /\ provider = "echo"
    /\ provPc = "final"
    /\ UpReceiverReady
    /\ UpReceive(StreamChunk(<<>>, TRUE, "stream error"))
    /\ upSent' = Append(upSent, StreamChunk(<<>>, TRUE, "stream error"))
    /\ provPc' = "exit"
    /\ UNCHANGED provIdx
    /\ EchoFrame

\* the final (or only) done chunk: select { case chunks <- done: ...
EchoFinalSend ==
    /\ provider = "echo"
    /\ provPc = "final"
    /\ UpReceiverReady
    /\ UpReceive(StreamChunk(<<>>, TRUE, "nil"))
    /\ upSent' = Append(upSent, StreamChunk(<<>>, TRUE, "nil"))
    /\ provPc' = "exit"
    /\ UNCHANGED provIdx
    /\ EchoFrame

\* ... case <-ctx.Done(): }
EchoFinalCancelled ==
    /\ provider = "echo"
    /\ provPc = "final"
    /\ cancelled
    /\ provPc' = "exit"
    /\ UNCHANGED <<provIdx, upSent, relayVars, consVars>>
    /\ EchoFrame

\* --------------------------------------- caching relay (cacheStreamWrapper)
RelayFrame == UNCHANGED <<sessVars, gwVars, compVars, ctxVars, provVars, replayVars>>

\* for chunk := range chunks, on the buffered channel of the bridge
RelayRecv ==
    /\ path = "relay"
    /\ relayPc = "recv"
    /\ upBuf # <<>>
    /\ RelayTake(Head(upBuf))
    /\ upBuf' = Tail(upBuf)
    /\ UNCHANGED <<upClosed, upSent, cacheVars, outVars, consVars>>
    /\ RelayFrame

\* RelayRecvClosed when out is closed at the end of the loop, before the Set
RelayRecvClosed_ClosesFirst ==
    /\ path = "relay"
    /\ relayPc = "recv"
    /\ upBuf = <<>>
    /\ upClosed
    /\ relayPc' = "flush"
    /\ outClosed' = TRUE
    /\ UNCHANGED <<relayCur, contentBuilder, lastError, upVars, cacheVars, outCloses, consVars>>
    /\ RelayFrame

\* the range loop ends when the provider's channel is closed and drained
RelayRecvClosed ==
    /\ path = "relay"
    /\ relayPc = "recv"
    /\ upBuf = <<>>
    /\ upClosed
    /\ relayPc' = "flush"
    /\ UNCHANGED <<relayCur, contentBuilder, lastError, upVars, cacheVars, outVars, consVars>>
    /\ RelayFrame

\* Forwarded when the relay rebuilds the done chunk instead of passing it on
Forwarded_Altered(c) == IF c.Done THEN StreamChunk(<<>>, TRUE, c.Error) ELSE c

\* what the relay puts on out for the chunk in hand
Forwarded(c) == c

\* Accumulate when the delta is put in front of the buffer
Accumulate_Prepend(b, c) == IF ~c.Done THEN c.Delta \o b ELSE b

\* contentBuilder after the chunk in hand
Accumulate(b, c) == IF ~c.Done THEN b \o c.Delta ELSE b

\* out <- chunk on the unbuffered out, received by the consumer, then the
\* bookkeeping of the loop body
RelayForward ==
    /\ path = "relay"
    /\ relayPc = "send"
    /\ consPc = "select"
    /\ ConsumerTake(Forwarded(relayCur))
    /\ lastError' = IF relayCur.Error # "nil" THEN relayCur.Error ELSE lastError
    /\ contentBuilder' = Accumulate(contentBuilder, relayCur)
    /\ relayPc' = "recv"
    /\ UNCHANGED <<relayCur, upVars, cacheVars, outVars>>
    /\ RelayFrame

\* ShouldCache when the error seen in the stream is not consulted
ShouldCache_IgnoresError(err, content) == content # <<>>

\* the guard of the cache.Set after the loop
ShouldCache(err, content) == err = "nil" /\ content # <<>>

\* the response handed to cache.Set
Synthesized(r, content) == CompletionResponse(r.Model, "cached-stream", content, ZeroUsage)

\* after the loop: cache.Set under the detached context; a failing Set is
\* only logged
RelayFlush ==
    /\ path = "relay"
    /\ relayPc = "flush"
    /\ IF ShouldCache(lastError, contentBuilder)
       THEN /\ setCalls' = Append(setCalls, [Req |-> req, Resp |-> Synthesized(req, contentBuilder)])
            /\ \/ store' = Synthesized(req, contentBuilder)
               \/ store' = store
       ELSE UNCHANGED cacheVars
    /\ relayPc' = "exit"
    /\ UNCHANGED <<relayCur, contentBuilder, lastError, upVars, outVars, consVars>>
    /\ RelayFrame

\* defer close(out)
RelayClose ==
    /\ path = "relay"
    /\ relayPc = "exit"
    /\ outClosed' = TRUE
    /\ outCloses' = outCloses + 1
    /\ relayPc' = "done"
    /\ UNCHANGED <<relayCur, contentBuilder, lastError, upVars, cacheVars, consVars>>
    /\ RelayFrame

\* ------------------------------------------ replay from cache (streamFromCache)
ReplayFrame == UNCHANGED <<sessVars, gwVars, compVars, ctxVars, cacheVars, provVars, upVars, relayVars, replayResp>>

\* ReplaySendSlice when the end of the slice is not capped at i + chunkSize
ReplaySendSlice_UncappedEnd ==
    /\ path = "replay"
    /\ replayPc = "loop"
    /\ replayI < Len(replayResp.Content)
    /\ consPc = "select"
    /\ ConsumerTake(StreamChunk(
            Slice(replayResp.Content, replayI, Len(replayResp.Content)),
            FALSE, "nil"))
    /\ replayI' = replayI + chunkSize
    /\ UNCHANGED <<replayPc, outVars>>
    /\ ReplayFrame

\* out <- StreamChunk{Delta: content[i:end]}; i += chunkSize
ReplaySendSlice ==
    /\ path = "replay"
    /\ replayPc = "loop"
    /\ replayI < Len(replayResp.Content)
    /\ consPc = "select"
    /\ ConsumerTake(StreamChunk(
            Slice(replayResp.Content, replayI, Min(replayI + chunkSize, Len(replayResp.Content))),
            FALSE, "nil"))
    /\ replayI' = replayI + chunkSize
    /\ UNCHANGED <<replayPc, outVars>>
    /\ ReplayFrame

\* out <- StreamChunk{Delta: "", Done: true}
ReplaySendDone ==
    /\ path = "replay"
    /\ replayPc = "loop"
    /\ replayI >= Len(replayResp.Content)
    /\ consPc = "select"
    /\ ConsumerTake(StreamChunk(<<>>, TRUE, "nil"))
    /\ replayPc' = "exit"
    /\ UNCHANGED <<replayI, outVars>>
    /\ ReplayFrame

\* defer close(out)
ReplayClose ==
    /\ path = "replay"
    /\ replayPc = "exit"
    /\ outClosed' = TRUE
    /\ outCloses' = outCloses + 1
    /\ replayPc' = "done"
    /\ UNCHANGED <<replayI, consVars>>
    /\ ReplayFrame

\* ---------------------------------------------------------------- consumer
ConsFrame == UNCHANGED <<sessVars, gwVars, compVars, ctxVars, cacheVars, provVars, relayVars, replayVars, outVars>>

\* case chunk, chunkOk := <-chunks, directly on the bridge's buffered channel
ConsumerRecvDirect ==
    /\ path = "direct"
    /\ consPc = "select"
    /\ upBuf # <<>>
    /\ ConsumerTake(Head(upBuf))
    /\ upBuf' = Tail(upBuf)
    /\ UNCHANGED <<upClosed, upSent>>
    /\ ConsFrame

\* the channel the consumer holds is closed and drained
ConsumerSeeClosed ==
    /\ consPc = "select"
    /\ IF path = "direct" THEN upClosed /\ upBuf = <<>> ELSE outClosed
    /\ consPc' = "returned"
    /\ sawClose' = TRUE
    /\ UNCHANGED <<received, recvAfterCancel, upVars>>
    /\ ConsFrame

\* case <-ctx.Done(): return, in the SSE handler
ConsumerCtxDone ==
    /\ consumerKind = "handler"
    /\ consPc = "select"
    /\ cancelled
    /\ consPc' = "returned"
    /\ UNCHANGED <<received, recvAfterCancel, sawClose, upVars>>
    /\ ConsFrame

\* ------------------------------------------------------- provider registry
RegFrame == UNCHANGED <<sessVars, gwVars, svcVars, adVars, ctxVars, cacheVars, provVars, upVars, relayVars, replayVars, outVars, consVars>>

LookFrame == UNCHANGED <<lookPc, lookOp, lookArg, lookRet>>

\* Register up to the lock: the nil and the empty-name checks
RegisterCall(r) ==
    /\ regPc[r] = "idle"
    /\ \E p \in ProviderObjects \cup {None} :
        /\ regArg' = [regArg EXCEPT ![r] = p]
        /\ regWrote' = [regWrote EXCEPT ![r] = FALSE]
        /\ regLeft' = [regLeft EXCEPT ![r] = {}]
        /\ IF p = None
           THEN /\ regRet' = [regRet EXCEPT ![r] = "provider cannot be nil"]
                /\ regPc' = [regPc EXCEPT ![r] = "return"]
           ELSE IF p.Name = ""
           THEN /\ regRet' = [regRet EXCEPT ![r] = "provider name cannot be empty"]
                /\ regPc' = [regPc EXCEPT ![r] = "return"]
           ELSE /\ regRet' = [regRet EXCEPT ![r] = "none"]
                /\ regPc' = [regPc EXCEPT ![r] = "lock"]
    /\ UNCHANGED <<providers, modelToProvider, muWriter, muReaders, regOrder>>
    /\ LookFrame
    /\ RegFrame

\* RegisterLock when the lock is taken whoever holds it
RegisterLock_NoExclusion(r) ==
    /\ regPc[r] = "lock"
    /\ muWriter' = r
    /\ regPc' = [regPc EXCEPT ![r] = "check"]
    /\ UNCHANGED <<providers, modelToProvider, muReaders, regArg, regLeft, regRet, regWrote, regOrder>>
    /\ LookFrame
    /\ RegFrame

\* r.mu.Lock()
RegisterLock(r) ==
    /\ regPc[r] = "lock"
    /\ muWriter = "none"
    /\ muReaders = {}
    /\ muWriter' = r
    /\ regPc' = [regPc EXCEPT ![r] = "check"]
    /\ UNCHANGED <<providers, modelToProvider, muReaders, regArg, regLeft, regRet, regWrote, regOrder>>
    /\ LookFrame
    /\ RegFrame

\* RegisterCheck when a duplicate name replaces the entry before it fails
RegisterCheck_Overwrites(r) ==
    /\ regPc[r] = "check"
    /\ IF regArg[r].Name \in DOMAIN providers
       THEN /\ regRet' = [regRet EXCEPT ![r] = "already registered"]
            /\ regPc' = [regPc EXCEPT ![r] = "unlock"]
            /\ providers' = (regArg[r].Name :> regArg[r]) @@ providers
       ELSE /\ regPc' = [regPc EXCEPT ![r] = "insert"]
            /\ UNCHANGED <<regRet, providers>>
    /\ UNCHANGED <<modelToProvider, muWriter, muReaders, regArg, regLeft, regWrote, regOrder>>
    /\ LookFrame
    /\ RegFrame

\* if _, exists := r.providers[name]; exists { return error }
RegisterCheck(r) ==
    /\ regPc[r] = "check"
    /\ IF regArg[r].Name \in DOMAIN providers
       THEN /\ regRet' = [regRet EXCEPT ![r] = "already registered"]
            /\ regPc' = [regPc EXCEPT ![r] = "unlock"]
       ELSE /\ regPc' = [regPc EXCEPT ![r] = "insert"]
            /\ UNCHANGED regRet
    /\ UNCHANGED <<providers, modelToProvider, muWriter, muReaders, regArg, regLeft, regWrote, regOrder>>
    /\ LookFrame
    /\ RegFrame

\* Inserted when the provider is not put in the name table
Inserted_Dropped(tbl, p) == tbl

\* r.providers[name] = provider
Inserted(tbl, p) == (p.Name :> p) @@ tbl

\* the insertion in the name table, then supportedModels := provider.SupportedModels(ctx)
RegisterInsert(r) ==
    /\ regPc[r] = "insert"
    /\ providers' = Inserted(providers, regArg[r])
    /\ regOrder' = Append(regOrder, regArg[r].Name)
    /\ regWrote' = [regWrote EXCEPT ![r] = TRUE]
    /\ regLeft' = [regLeft EXCEPT ![r] = regArg[r].Models]
    /\ regPc' = [regPc EXCEPT ![r] = "index"]
    /\ UNCHANGED <<modelToProvider, muWriter, muReaders, regArg, regRet>>
    /\ LookFrame
    /\ RegFrame

\* IndexEntry when a model that is already claimed keeps its provider
IndexEntry_FirstWins(idx, model, name) ==
    IF model \in DOMAIN idx THEN idx ELSE (model :> name) @@ idx

\* r.modelToProvider[model] = name
IndexEntry(idx, model, name) == (model :> name) @@ idx

\* for _, model := range supportedModels, in the order of the slice (any), and
\* return nil after the last one
RegisterIndex(r) ==
    /\ regPc[r] = "index"
    /\ IF regLeft[r] # {}
       THEN /\ \E m \in regLeft[r] :
                /\ modelToProvider' = IndexEntry(modelToProvider, m, regArg[r].Name)
                /\ regLeft' = [regLeft EXCEPT ![r] = regLeft[r] \ {m}]
            /\ UNCHANGED <<regPc, regRet>>
       ELSE /\ regRet' = [regRet EXCEPT ![r] = "nil"]
            /\ regPc' = [regPc EXCEPT ![r] = "unlock"]
            /\ UNCHANGED <<modelToProvider, regLeft>>
    /\ UNCHANGED <<providers, muWriter, muReaders, regArg, regWrote, regOrder>>
    /\ LookFrame
    /\ RegFrame

\* defer r.mu.Unlock(), and the result goes to the caller
RegisterUnlock(r) ==
    /\ regPc[r] = "unlock"
    /\ muWriter' = "none"
    /\ regPc' = [regPc EXCEPT ![r] = "idle"]
    /\ regArg' = [regArg EXCEPT ![r] = None]
    /\ regRet' = [regRet EXCEPT ![r] = "none"]
    /\ regWrote' = [regWrote EXCEPT ![r] = FALSE]
    /\ UNCHANGED <<providers, modelToProvider, muReaders, regLeft, regOrder>>
    /\ LookFrame
    /\ RegFrame

\* the return of a call that failed before the lock
RegisterReturn(r) ==
    /\ regPc[r] = "return"
    /\ regPc' = [regPc EXCEPT ![r] = "idle"]
    /\ regArg' = [regArg EXCEPT ![r] = None]
    /\ regRet' = [regRet EXCEPT ![r] = "none"]
    /\ UNCHANGED <<providers, modelToProvider, muWriter, muReaders, regLeft, regWrote, regOrder>>
    /\ LookFrame
    /\ RegFrame

WriterFrame == UNCHANGED <<providers, modelToProvider, regPc, regArg, regLeft, regRet, regWrote, regOrder>>

\* Get, List or GetByModel up to the lock: the empty-argument checks
LookupCall ==
    /\ lookPc = "idle"
    /\ \/ \E m \in LookupModels :
            /\ lookOp' = "GetByModel"
            /\ lookArg' = m
            /\ IF m = ""
               THEN /\ lookRet' = [NoResult EXCEPT !.Err = "model cannot be empty"]
                    /\ lookPc' = "return"
               ELSE /\ lookRet' = NoResult
                    /\ lookPc' = "rlock"
       \/ \E n \in LookupNames :
            /\ lookOp' = "Get"
            /\ lookArg' = n
            /\ IF n = ""
               THEN /\ lookRet' = [NoResult EXCEPT !.Err = "provider name cannot be empty"]
                    /\ lookPc' = "return"
               ELSE /\ lookRet' = NoResult
                    /\ lookPc' = "rlock"
       \/ /\ lookOp' = "List"
          /\ lookArg' = ""
          /\ lookRet' = NoResult
          /\ lookPc' = "rlock"
    /\ UNCHANGED <<muWriter, muReaders>>
    /\ WriterFrame
    /\ RegFrame

\* r.mu.RLock()
LookupRLock ==
    /\ lookPc = "rlock"
    /\ muWriter = "none"
    /\ muReaders' = muReaders \cup {"reader"}
    /\ lookPc' = "read"
    /\ UNCHANGED <<muWriter, lookOp, lookArg, lookRet>>
    /\ WriterFrame
    /\ RegFrame

\* the orders in which range can walk a map with the keys of S
Orders(S) ==
    {o \in [1..Cardinality(S) -> S] : \A i, j \in 1..Cardinality(S) : o[i] = o[j] => i = j}

\* ScanResults when the scan returns the first provider it meets
ScanResults_AnyProvider(tbl, model) ==
    IF DOMAIN tbl = {}
    THEN {[NoResult EXCEPT !.Err = "no provider found for model"]}
    ELSE {[NoResult EXCEPT !.Provider = n, !.Err = "nil"] : n \in DOMAIN tbl}

\* the fallback of GetByModel: range over r.providers, in any order, and the
\* first provider whose IsModelSupported accepts the model
ScanResults(tbl, model) ==
    IF \E n \in DOMAIN tbl : IsModelSupported(tbl[n], model)
    THEN {[NoResult EXCEPT !.Provider = n, !.Err = "nil"] :
            n \in {x \in DOMAIN tbl : IsModelSupported(tbl[x], model)}}
    ELSE {[NoResult EXCEPT !.Err = "no provider found for model"]}

\* what Registry.GetByModel can return for a non-empty model
RegistryGetByModel(model) ==
    IF model \notin DOMAIN modelToProvider THEN ScanResults(providers, model)
    ELSE IF modelToProvider[model] \notin DOMAIN providers
    THEN {[NoResult EXCEPT !.Err = "provider not found"]}
    ELSE {[NoResult EXCEPT !.Provider = modelToProvider[model], !.Err = "nil"]}

\* what Registry.Get returns for a non-empty name
RegistryGet(name) ==
    IF name \in DOMAIN providers
    THEN {[NoResult EXCEPT !.Provider = name, !.Err = "nil"]}
    ELSE {[NoResult EXCEPT !.Err = "provider not found"]}

\* what Registry.List can return: the names, in the order of the map walk
RegistryList ==
    {[NoResult EXCEPT !.Names = o, !.Err = "nil"] : o \in Orders(DOMAIN providers)}

\* the body of the lookup under the read lock
LookupRead ==
    /\ lookPc = "read"
    /\ lookRet' \in (IF lookOp = "GetByModel" THEN RegistryGetByModel(lookArg)
                      ELSE IF lookOp = "Get" THEN RegistryGet(lookArg)
                      ELSE RegistryList)
    /\ lookPc' = "runlock"
    /\ UNCHANGED <<muWriter, muReaders, lookOp, lookArg>>
    /\ WriterFrame
    /\ RegFrame

\* defer r.mu.RUnlock(), and the result goes to the caller
LookupRUnlock ==
    /\ lookPc = "runlock"
    /\ muReaders' = muReaders \ {"reader"}
    /\ lookPc' = "idle"
    /\ lookOp' = "none"
    /\ lookArg' = ""
    /\ lookRet' = NoResult
    /\ UNCHANGED muWriter
    /\ WriterFrame
    /\ RegFrame

\* the return of a lookup that failed before the lock
LookupReturn ==
    /\ lookPc = "return"
    /\ lookPc' = "idle"
    /\ lookOp' = "none"
    /\ lookArg' = ""
    /\ lookRet' = NoResult
    /\ UNCHANGED <<muWriter, muReaders>>
    /\ WriterFrame
    /\ RegFrame

RegistryNext ==
    \/ \E r \in Registrars : RegisterCall(r)
    \/ \E r \in Registrars : RegisterLock(r)
    \/ \E r \in Registrars : RegisterCheck(r)
    \/ \E r \in Registrars : RegisterInsert(r)
    \/ \E r \in Registrars : RegisterIndex(r)
    \/ \E r \in Registrars : RegisterUnlock(r)
    \/ \E r \in Registrars : RegisterReturn(r)
    \/ LookupCall
    \/ LookupRLock
    \/ LookupRead
    \/ LookupRUnlock
    \/ LookupReturn

\* the registry of its own, from NewRegistry(), with the gateway at rest
RegistryInit == GatewayInit /\ ~cacheOn /\ RegistryEmpty /\ ServiceUnused /\ AdapterUnused

RegistrySpec == RegistryInit /\ [][RegistryNext]_vars

\* ------------------------------------------------- semantic cache service
SvcFrame == UNCHANGED <<sessVars, gwVars, regVars, adVars, ctxVars, cacheVars, provVars, upVars, relayVars, replayVars, outVars, consVars>>

\* the KNN query with limit 1: a record at the least distance, any of them
\* when several are as near, and nothing from an empty index
Nearest(idx, vec) ==
    {rec \in idx : \A other \in idx : Similarity(rec.Embedding, vec) >= Similarity(other.Embedding, vec)}

\* parseSearchResult: a candidate under the threshold is dropped
PassesThreshold(similarity) == ~(similarity < threshold)

\* VectorSearch.Search(embedding, threshold, 1): the result lists it can return
Search(idx, vec) ==
    IF idx = {} THEN {<<>>}
    ELSE {IF PassesThreshold(Similarity(rec.Embedding, vec)) THEN <<rec>> ELSE <<>> :
            rec \in Nearest(idx, vec)}

\* MissReturn when a miss is reported without an error
MissReturn_NilNil == [NoReturn EXCEPT !.Err = "nil"]

\* return nil, ErrCacheMiss
MissReturn == [NoReturn EXCEPT !.Err = "cache miss"]

\* what Get returns for the results of the search
GetReturn(results) ==
    IF Len(results) = 0 THEN MissReturn
    ELSE [Resp |-> Unmarshal(results[1].Data),
          Similarity |-> Similarity(results[1].Embedding, results[1].Query),
          Err |-> "nil"]

\* SemanticCacheService.Get
ServiceGet ==
    /\ svcOp = "none"
    /\ \E r \in CacheRequests \cup {None} :
        /\ svcOp' = "Get"
        /\ svcReq' = r
        /\ IF r = None
           THEN svcRet' = [NoReturn EXCEPT !.Err = "request cannot be nil"]
           ELSE \/ svcRet' = [NoReturn EXCEPT !.Err = "failed to generate embedding"]
                \/ svcRet' = [NoReturn EXCEPT !.Err = "failed to search similar vectors"]
                \/ \E results \in Search(index, embedOf[buildQueryText(r)]) :
                        svcRet' = GetReturn([i \in 1..Len(results) |->
                            [Embedding |-> results[i].Embedding, Data |-> results[i].Data,
                             Query |-> embedOf[buildQueryText(r)]]])
    /\ UNCHANGED <<embedOf, index, latest>>
    /\ SvcFrame

\* pipe.HSet(key, embedding, data, indexed_at): the hash under the key is replaced
HSet(idx, rec) == {old \in idx : old.Key # rec.Key} \cup {rec}

\* SemanticCacheService.Set, with the TTL of the configuration
ServiceSet ==
    /\ svcOp = "none"
    /\ \E r \in CacheRequests \cup {None}, resp \in CacheResponses \cup {None} :
        /\ svcOp' = "Set"
        /\ svcReq' = r
        /\ IF r = None
           THEN /\ svcRet' = [NoReturn EXCEPT !.Err = "request cannot be nil"]
                /\ UNCHANGED <<index, latest>>
           ELSE IF resp = None
           THEN /\ svcRet' = [NoReturn EXCEPT !.Err = "response cannot be nil"]
                /\ UNCHANGED <<index, latest>>
           ELSE \/ /\ svcRet' = [NoReturn EXCEPT !.Err = "failed to generate embedding"]
                   /\ UNCHANGED <<index, latest>>
                \/ /\ svcRet' = [NoReturn EXCEPT !.Err = "failed to index in cache"]
                   /\ UNCHANGED <<index, latest>>
                \/ /\ svcRet' = [NoReturn EXCEPT !.Err = "nil"]
                   /\ index' = HSet(index, [Key |-> generateCacheKey(buildQueryText(r)),
                                            Embedding |-> embedOf[buildQueryText(r)],
                                            Data |-> Marshal(resp)])
                   /\ latest' = [latest EXCEPT ![buildQueryText(r)] = resp]
    /\ UNCHANGED embedOf
    /\ SvcFrame

\* the TTL of a record elapses
Expire ==
    /\ \E rec \in index :
        /\ index' = index \ {rec}
        /\ latest' = [t \in QueryTexts |->
                        IF generateCacheKey(t) = rec.Key THEN None ELSE latest[t]]
    /\ UNCHANGED <<embedOf, svcOp, svcReq, svcRet>>
    /\ SvcFrame

\* the caller takes the result of Get or Set
ServiceReturn ==
    /\ svcOp # "none"
    /\ svcOp' = "none"
    /\ svcReq' = None
    /\ svcRet' = NoReturn
    /\ UNCHANGED <<embedOf, index, latest>>
    /\ SvcFrame

ServiceNext ==
    \/ ServiceGet
    \/ ServiceSet
    \/ ServiceReturn
    \/ Expire

\* the cache service of its own over an empty index, with any embedding
\* backend, the gateway and the registry at rest
ServiceInit ==
    /\ GatewayInit
    /\ ~cacheOn
    /\ RegistryWired
    /\ embedOf \in [QueryTexts -> Vectors]
    /\ ServiceAtRest
    /\ AdapterUnused

ServiceSpec == ServiceInit /\ [][ServiceNext]_vars

\* ------------------------------------------------------ vector index adapter
AdFrame == UNCHANGED <<sessVars, gwVars, regVars, svcVars, ctxVars, cacheVars, provVars, upVars, relayVars, replayVars, outVars, consVars>>

\* createIndex: FTInfo answers for an existing index and the creation is
\* skipped; otherwise FTCreate builds the index, or fails
createIndex(server, dim) ==
    IF server # None
    THEN {[Index |-> server, Err |-> "nil"]}
    ELSE {[Index |-> Schema(dim), Err |-> "nil"],
          [Index |-> None, Err |-> "failed to create index"]}

\* NewVectorSearch(client, indexName, embeddingDimension)
NewVectorSearch ==
    /\ \E dim \in Dimensions : \E made \in createIndex(ftIndex, dim) :
        /\ ftIndex' = made.Index
        /\ vsErr' = made.Err
        /\ vs' = IF made.Err = "nil" THEN [embeddingDimension |-> dim] ELSE None
    /\ UNCHANGED <<searchArg, searchRet>>
    /\ AdFrame

\* parseSearchResult: None stands for the nil result
parseSearchResult(doc, th) ==
    IF doc.Field \in {"missing", "unparsable"} THEN None
    ELSE IF (100 - doc.Score) < th THEN None
    ELSE IF ~doc.HasData THEN None
    ELSE [Similarity |-> 100 - doc.Score]

RECURSIVE parseSearchResults(_, _)
\* parseSearchResults: the documents that parse, in order
parseSearchResults(docs, th) ==
    IF docs = <<>> THEN <<>>
    ELSE IF parseSearchResult(Head(docs), th) = None
         THEN parseSearchResults(Tail(docs), th)
         ELSE <<parseSearchResult(Head(docs), th)>> \o parseSearchResults(Tail(docs), th)

\* VectorSearch.Search over the documents the KNN query returns
AdapterSearch ==
    /\ vs # None
    /\ \E th \in Thresholds :
        \E docs \in {<<>>} \cup {<<d>> : d \in Documents} :
            /\ Len(docs) <= searchLimit
            /\ searchArg' = [Threshold |-> th, Docs |-> docs]
            /\ searchRet' = parseSearchResults(docs, th)
    /\ UNCHANGED <<ftIndex, vs, vsErr>>
    /\ AdFrame

AdapterNext ==
    \/ NewVectorSearch
    \/ AdapterSearch

\* the adapter of its own, on a server that has no index or has the index of
\* an earlier run, with the gateway, the registry and the service at rest
AdapterInit ==
    /\ GatewayInit
    /\ ~cacheOn
    /\ RegistryWired
    /\ ServiceUnused
    /\ ftIndex \in {None} \cup {Schema(dim) : dim \in Dimensions}
    /\ AdapterAtRest

AdapterSpec == AdapterInit /\ [][AdapterNext]_vars

\* ------------------------------------------------------------ specification
Next ==
    \/ CompleteByModel
    \/ Complete
    \/ StreamByModel
    \/ StreamByModelAgain
    \/ Stream
    \/ Cancel
    \/ BridgeNext
    \/ BridgeCheck
    \/ BridgeSend
    \/ BridgeSendCancelled
    \/ BridgeErr
    \/ ProviderClose
    \/ EchoWordSend
    \/ EchoWordCancelled
    \/ EchoCancelSend
    \/ EchoFinalSend
    \/ EchoFinalCancelled
    \/ RelayRecv
    \/ RelayRecvClosed
    \/ RelayForward
    \/ RelayFlush
    \/ RelayClose
    \/ ReplaySendSlice
    \/ ReplaySendDone
    \/ ReplayClose
    \/ ConsumerRecvDirect
    \/ ConsumerSeeClosed
    \/ ConsumerCtxDone

Spec == Init /\ [][Next]_vars

\* the steps of each task, and the scheduling of the Go runtime: a task that
\* can take a step eventually takes one
BridgeStep == BridgeNext \/ BridgeCheck \/ BridgeSend \/ BridgeSendCancelled \/ BridgeErr

EchoStep == EchoWordSend \/ EchoWordCancelled \/ EchoCancelSend \/ EchoFinalSend \/ EchoFinalCancelled

RelayStep == RelayRecv \/ RelayRecvClosed \/ RelayForward \/ RelayFlush \/ RelayClose

ReplayStep == ReplaySendSlice \/ ReplaySendDone \/ ReplayClose

ConsumerStep == ConsumerRecvDirect \/ ConsumerSeeClosed \/ ConsumerCtxDone

\* the bridge does not look at the cache: its progress is checked with a
\* cache that is empty or holds one short entry
BridgeInit == Init /\ (store # None => Len(store.Content) = 1)

\* the bridge is a goroutine of its own: whenever it can take a step it
\* eventually takes one
BridgeFairSpec == BridgeInit /\ [][Next]_vars /\ WF_vars(BridgeStep \/ ProviderClose)

\* ------------------------------------------------------------------ claims
Last(s) == s[Len(s)]

HasError(cs) == \E i \in 1..Len(cs) : cs[i].Error # "nil"

\* the deltas of the chunks of cs that satisfy keep, concatenated in order
RECURSIVE Deltas(_, _)
Deltas(cs, withDone) ==
    IF cs = <<>> THEN <<>>
    ELSE (IF withDone \/ ~Head(cs).Done THEN Head(cs).Delta ELSE <<>>) \o Deltas(Tail(cs), withDone)

C2_RelayNotBlocked ==
    (path = "relay" /\ cancelled /\ consPc = "returned" /\ relayPc = "send")
        => ENABLED RelayStep

\* C3: once the consumer's context is done and the consumer has returned, the
\* replay task is never blocked on a send: it can always take a step until it
\* has closed the sequence.
C3_ReplayNotBlocked ==
    (path = "replay" /\ cancelled /\ consPc = "returned" /\ replayPc # "done")
        => ENABLED ReplayStep

\* C4: after cancellation the bridge is never blocked at one of its sends:
\* at each of them it can take a step whatever the state of its channel.
C4_BridgeNeverBlocks ==
    (provider = "openai" /\ cancelled /\ provPc \in {"check", "send", "err"})
        => ENABLED BridgeStep

C4_Witness ==
    /\ provider = "openai"
    /\ cancelled
    /\ provPc = "send"
    /\ ~UpHasRoom
    /\ consPc = "returned"

\* C5: a relayed stream cancelled before the provider sent its terminal chunk
\* performs no cache.Set.
C5_NoSetAfterEarlyCancel ==
    (path = "relay" /\ cancelEarly) => setCalls = <<>>

\* C6: after a cancellation between two chunks the consumer receives at most
\* one more chunk.
C6_AtMostOneAfterCancel ==
    cancelBetween => recvAfterCancel <= 1

\* C7: the bridge's channel is never closed twice, and once the upstream has
\* reported a finish reason and the done chunk is sent, or has raised an
\* error, or the context is cancelled, the channel is eventually closed,
\* exactly once.
C7_BridgeClosedOnce ==
    /\ [](upCloses <= 1)
    /\ (provider = "openai" /\ (cancelled \/ bridgeEnd \in {"finish", "error"}))
        ~> (upClosed /\ upCloses = 1)

C7_Witness ==
    /\ provider = "openai"
    /\ bridgeEnd = "cancel"
    /\ upClosed
    /\ upCloses = 1

\* C8: when a chunk forwarded by the relay carried an error, no cache.Set is
\* performed.
C8_NoSetAfterError ==
    (path = "relay" /\ HasError(received)) => setCalls = <<>>

C8_Witness ==
    /\ path = "relay"
    /\ relayPc = "done"
    /\ HasError(received)
    /\ Deltas(received, TRUE) # <<>>

C10_RelayFaithful ==
    path = "relay" =>
        /\ IsPrefix(received, upSent)
        /\ (relayPc \in {"flush", "exit", "done"} => received = upSent)

C10_Witness ==
    /\ path = "relay"
    /\ relayPc = "done"
    /\ Len(received) >= 3
    /\ Last(received).Done
    /\ Last(received).Delta # <<>>

\* C11: a replay of a cached content of length N that has closed its sequence
\* delivered ceil(N/50) chunks with done=false and no error whose deltas
\* concatenate in order to the cached content, then exactly one chunk with an
\* empty delta, done=true and no error; the sequence is not closed before that
\* last chunk is delivered.
C11_ReplayChunks ==
    (path = "replay" /\ replayPc \in {"exit", "done"}) =>
        LET n == Len(replayResp.Content)
            k == (n + chunkSize - 1) \div chunkSize
        IN  /\ replayResp.Content = store.Content
            /\ Len(received) = k + 1
            /\ \A i \in 1..k : ~received[i].Done /\ received[i].Error = "nil"
            /\ Deltas(SubSeq(received, 1, k), TRUE) = replayResp.Content
            /\ received[k + 1] = StreamChunk(<<>>, TRUE, "nil")
            /\ (outClosed => replayPc = "done")

C11_Witness ==
    /\ path = "replay"
    /\ sawClose
    /\ Len(replayResp.Content) = 2 * chunkSize + 1
    /\ Len(received) = 4
    /\ Len(received[3].Delta) = 1

Called(f) == \E i \in 1..Len(calls) : calls[i] = f

CacheHit == getResult # None /\ getResult.Outcome = "hit"

\* C12: when the cache.Get of CompleteByModel or StreamByModel was a hit, the
\* operation returned without error having made no other call than that
\* cache.Get: no registry lookup, no provider invocation (none is ever
\* started, also while the replay runs), no cache.Set, the entry left as it was.
C12_HitIsTerminal ==
    (op \in {"CompleteByModel", "StreamByModel"} /\ CacheHit) =>
        /\ callErr = "nil"
        /\ calls = <<"cache.Get">>
        /\ provResult = None
        /\ provider = "none"
        /\ provPc = "idle"
        /\ upSent = <<>>
        /\ setCalls = <<>>
        /\ store = getResult.Response
        /\ (op = "CompleteByModel" => result.CacheInfo = [Hit |-> TRUE])
        /\ (op = "StreamByModel" => path = "replay")

C12_Witness ==
    /\ op = "CompleteByModel"
    /\ CacheHit
    /\ result # None
    /\ result.Response.Content = store.Content
    /\ Len(store.Content) = chunkSize

\* C13: a response CompleteByModel returned on a cache hit has usage.cost 0,
\* whatever cost the entry carried in the cache.
C13_HitCostZero ==
    (op = "CompleteByModel" /\ CacheHit) =>
        /\ result # None
        /\ result.Response.Usage.Cost = 0
        /\ result.Response = [getResult.Response EXCEPT !.Usage.Cost = 0]

C13_Witness ==
    /\ op = "CompleteByModel"
    /\ CacheHit
    /\ getResult.Response.Usage.Cost > 0
    /\ result.Response.Usage.Cost = 0

\* C14: every response the cache service's Get returned on a hit has
\* usage.cost 0.
C14_GetCostZero ==
    CacheHit => getResult.Response.Usage.Cost = 0

CacheMissed == getResult # None /\ getResult.Outcome \in {"miss", "error"}

\* C15: with a cache installed, after a cache.Get that missed or failed,
\* CompleteByModel and StreamByModel went on to the registry lookup and, when
\* a provider was found, to the provider call; the operation fails only with
\* the routing or the upstream failure, and succeeds otherwise as on a miss,
\* whatever the outcome of the cache.Get was.
C15_GetFailureNotFatal ==
    (op \in {"CompleteByModel", "StreamByModel"} /\ CacheMissed) =>
        /\ cacheOn
        /\ Len(calls) >= 2
        /\ calls[1] = "cache.Get"
        /\ calls[2] = "registry.GetByModel"
        /\ IF GetByModel(req.Model) = "none"
           THEN callErr = "provider routing failed" /\ Len(calls) = 2
           ELSE /\ calls[3] = (IF op = "CompleteByModel" THEN "provider.Complete" ELSE "provider.Stream")
                /\ IF op = "StreamByModel"
                   THEN callErr = "nil" /\ path = "relay"
                   ELSE IF provResult.Err # "nil"
                   THEN callErr = "completion failed"
                   ELSE /\ callErr = "nil"
                        /\ result = [Response |-> [provResult.Resp EXCEPT !.Usage.Cost = costResult.Cost],
                                      CacheInfo |-> [Hit |-> FALSE]]

C15_Witness ==
    /\ op = "CompleteByModel"
    /\ getResult # None
    /\ getResult.Outcome = "error"
    /\ callErr = "nil"
    /\ result # None
    /\ result.Response.Provider = "openai"
    /\ storeErr = "nil"

\* C16: in CompleteByModel cache.Set is invoked at most once, and exactly
\* once when a cache is installed, the probe did not hit and the provider
\* returned a response: it is the last call, after provider.Complete and
\* cost.Calculate, and it receives the request and the response carrying
\* the computed cost, the one that is returned; it is not invoked when the
\* operation fails.
C16_SetOnceAfterCost ==
    op = "CompleteByModel" =>
        /\ Len(setCalls) <= 1
        /\ Cardinality({i \in 1..Len(calls) : calls[i] = "cache.Set"}) = Len(setCalls)
        /\ (setCalls # <<>>) = (cacheOn /\ provResult # None /\ provResult.Err = "nil")
        /\ (callErr # "nil" => setCalls = <<>>)
        /\ (setCalls # <<>> =>
                /\ calls = <<"cache.Get", "registry.GetByModel", "provider.Complete",
                             "cost.Calculate", "cache.Set">>
                /\ setCalls[1].Req = req
                /\ setCalls[1].Resp = [provResult.Resp EXCEPT !.Usage.Cost = costResult.Cost]
                /\ setCalls[1].Resp = result.Response)

C16_Witness ==
    /\ op = "CompleteByModel"
    /\ Len(setCalls) = 1
    /\ setCalls[1].Resp.Usage.Cost > 0
    /\ store = setCalls[1].Resp
    /\ getResult.Outcome = "miss"

\* C17: when the cache.Set of CompleteByModel failed, the operation returned
\* no error and the provider's response with its computed cost.
C17_SetFailureNotFatal ==
    (op = "CompleteByModel" /\ storeErr \notin {"none", "nil"}) =>
        /\ callErr = "nil"
        /\ result = [Response |-> [provResult.Resp EXCEPT !.Usage.Cost = costResult.Cost],
                      CacheInfo |-> [Hit |-> FALSE]]

C17_Witness ==
    /\ op = "CompleteByModel"
    /\ storeErr = "failed to index in cache"
    /\ callErr = "nil"
    /\ result.Response.Usage.Cost > 0
    /\ store = None

\* C18: whenever the provider call of Complete or CompleteByModel succeeded,
\* the operation returned no error and the provider's response with the cost
\* cost.Calculate returned, which is 0 when cost.Calculate failed.
C18_CostFailureNotFatal ==
    (op \in {"Complete", "CompleteByModel"} /\ provResult # None /\ provResult.Err = "nil") =>
        /\ callErr = "nil"
        /\ result # None
        /\ costResult # None
        /\ result.Response = [provResult.Resp EXCEPT !.Usage.Cost = costResult.Cost]
        /\ (costResult.Err # "nil" => result.Response.Usage.Cost = 0)

C18_Witness ==
    /\ op = "Complete"
    /\ provResult # None
    /\ provResult.Err = "nil"
    /\ costResult.Err = "model cannot be empty"
    /\ callErr = "nil"
    /\ result.Response.Usage.Cost = 0

\* C19: Complete and Stream never call cache.Get or cache.Set, also with a
\* cache installed and through the whole stream, and the only registry call
\* they make is registry.Get with the given name: the provider they use is
\* the one registered under that name.
C19_ExplicitSkipsCache ==
    op \in {"Complete", "Stream"} =>
        /\ ~Called("cache.Get")
        /\ ~Called("cache.Set")
        /\ ~Called("registry.GetByModel")
        /\ getResult = None
        /\ setCalls = <<>>
        /\ storeErr = "none"
        /\ path \in {"idle", "failed", "direct"}
        /\ (calls # <<>> => calls[1] = "registry.Get")
        /\ (op = "Stream" => provider \in {"none", providerName})
        /\ (op = "Complete" /\ provResult # None /\ provResult.Err = "nil"
                => provResult.Resp.Provider = providerName)

C19_Witness ==
    /\ op = "Stream"
    /\ cacheOn
    /\ store # None
    /\ providerName = "openai"
    /\ sawClose
    /\ Deltas(received, TRUE) # <<>>
    /\ ~HasError(received)

InvalidArgument(e) ==
    e \in {"request cannot be nil", "model cannot be empty", "provider name cannot be empty"}

\* C20: CompleteByModel and StreamByModel called with a nil request or with
\* an empty model returned an InvalidArgument error and made no call at all:
\* no cache.Get, no registry lookup, no provider call, no cache.Set.
C20_InvalidBeforeCalls ==
    (op \in {"CompleteByModel", "StreamByModel"} /\ (req = None \/ req.Model = "")) =>
        /\ InvalidArgument(callErr)
        /\ calls = <<>>
        /\ getResult = None
        /\ provResult = None
        /\ result = None
        /\ setCalls = <<>>
        /\ provider = "none"
        /\ path \in {"idle", "failed"}

C20_Witness ==
    /\ op = "StreamByModel"
    /\ cacheOn
    /\ store # None
    /\ req # None
    /\ req.Model = ""
    /\ callErr = "model cannot be empty"

\* ------------------------------------------------------ claims on the registry
RegisterFailed(ret) == ret \notin {"none", "nil"}

\* C21: a Register call on a nil provider, on a provider with an empty name or
\* on a name that is already in the name table returns an error, the call has
\* written nothing to the registry, and the steps of a failing call leave the
\* name table and the reverse index as they were.
C21_FailedRegisterKeepsRegistry ==
    /\ [](\A r \in Registrars :
            /\ regArg[r] = None /\ regPc[r] # "idle" => regRet[r] = "provider cannot be nil"
            /\ regArg[r] # None /\ regArg[r].Name = "" => regRet[r] = "provider name cannot be empty"
            /\ RegisterFailed(regRet[r]) => ~regWrote[r]
            /\ regPc[r] = "unlock" =>
                    /\ regArg[r].Name \in DOMAIN providers
                    /\ regRet[r] = "already registered" <=> ~regWrote[r]
            /\ \A i, j \in 1..Len(regOrder) : regOrder[i] = regOrder[j] => i = j)
    /\ [][\A r \in Registrars :
            (RegisterFailed(regRet[r]) \/ RegisterFailed(regRet'[r])) /\ regPc'[r] # regPc[r]
                => providers' = providers /\ modelToProvider' = modelToProvider]_vars

\* a second provider object named A is refused while the first one is registered
C21_Witness ==
    \E r \in Registrars :
        /\ regPc[r] = "unlock"
        /\ regRet[r] = "already registered"
        /\ regArg[r].Name = "A"
        /\ providers["A"] # regArg[r]
        /\ DOMAIN modelToProvider # {}

\* the positions of regOrder whose provider enumerates the model
Claimants(model) ==
    {i \in 1..Len(regOrder) : model \in providers[regOrder[i]].Models}

\* C22: whenever no Register call holds the lock, for every registered provider
\* P and every model m that P enumerates, GetByModel(m) succeeds and returns P
\* or a provider that was registered after P and enumerates m too; the provider
\* it returns is the last one registered among those that enumerate m.
C22_LastRegistrationWins ==
    muWriter = "none" =>
        \A i \in 1..Len(regOrder) : \A m \in providers[regOrder[i]].Models :
            \E j \in Claimants(m) :
                /\ j >= i
                /\ \A k \in Claimants(m) : k <= j
                /\ RegistryGetByModel(m) = {[NoResult EXCEPT !.Provider = regOrder[j], !.Err = "nil"]}

\* A with m1 and m2 was registered before B with m2 and m3, and a lookup of m2
\* has returned B
C22_Witness ==
    /\ regOrder = <<"A", "B">>
    /\ providers["A"].Models = {"m1", "m2"}
    /\ lookPc = "runlock"
    /\ lookOp = "GetByModel"
    /\ lookArg = "m2"
    /\ lookRet.Provider = "B"
    /\ RegistryGetByModel("m1") = {[NoResult EXCEPT !.Provider = "A", !.Err = "nil"]}
    /\ RegistryGetByModel("m3") = {[NoResult EXCEPT !.Provider = "B", !.Err = "nil"]}

\* C23: in every state, hence in every state a reader can observe while
\* Register calls and lookups run concurrently, each entry of the reverse
\* index names a provider of the name table, and a GetByModel that has read
\* the registry never reports a dangling index entry.
C23_IndexResolves ==
    /\ \A m \in DOMAIN modelToProvider : modelToProvider[m] \in DOMAIN providers
    /\ lookOp = "GetByModel" => lookRet.Err # "provider not found"

\* a lookup answered from the index while a Register call waits for the lock
C23_Witness ==
    /\ lookPc = "runlock"
    /\ lookOp = "GetByModel"
    /\ lookArg \in DOMAIN modelToProvider
    /\ lookRet.Err = "nil"
    /\ \E r \in Registrars : regPc[r] = "lock" /\ regArg[r].Name \notin DOMAIN providers

\* the callers inside the section that mu.Lock protects
InRegister == {r \in Registrars : regPc[r] \in {"check", "insert", "index", "unlock"}}

\* C24: Register calls exclude each other and the readers; a Register call of
\* a named provider fails only when its name is already in the name table, so
\* calls with pairwise distinct names all succeed; the name table holds exactly
\* the names that were inserted, each once; and List returns exactly those
\* names, each once, in some order.
C24_NoRegistrationLost ==
    /\ Cardinality(InRegister) <= 1
    /\ InRegister # {} => muReaders = {} /\ muWriter \in InRegister
    /\ \A r \in Registrars : regPc[r] = "unlock" =>
            /\ regRet[r] \in {"nil", "already registered"}
            /\ regRet[r] = "nil" => regWrote[r] /\ regOrder[Len(regOrder)] = regArg[r].Name
            /\ regRet[r] = "already registered" =>
                    \E i \in 1..Len(regOrder) : regOrder[i] = regArg[r].Name
    /\ \A i, j \in 1..Len(regOrder) : regOrder[i] = regOrder[j] => i = j
    /\ {regOrder[i] : i \in 1..Len(regOrder)} = DOMAIN providers
    /\ lookOp = "List" /\ lookPc = "runlock" =>
            /\ lookRet.Err = "nil"
            /\ Len(lookRet.Names) = Len(regOrder)
            /\ {lookRet.Names[i] : i \in 1..Len(lookRet.Names)} = {regOrder[i] : i \in 1..Len(regOrder)}

\* D and E were registered, List returns both names in the opposite order, and
\* a further Register call waits for the lock that the reader holds
C24_Witness ==
    /\ regOrder = <<"D", "E">>
    /\ lookOp = "List"
    /\ lookPc = "runlock"
    /\ lookRet.Names = <<"E", "D">>
    /\ \E r \in Registrars : regPc[r] = "lock"

\* the registered providers whose IsModelSupported accepts the model
Supporters(model) == {n \in DOMAIN providers : IsModelSupported(providers[n], model)}

\* C25: a GetByModel for a model that the reverse index does not hold returns
\* a registered provider whose IsModelSupported accepts the model whenever at
\* least one registered provider accepts it, and fails with the not-found
\* error exactly when none does, the empty registry included.
C25_FallbackScan ==
    lookPc = "runlock" /\ lookOp = "GetByModel" /\ lookArg \notin DOMAIN modelToProvider =>
        IF Supporters(lookArg) # {}
        THEN lookRet.Err = "nil" /\ lookRet.Provider \in Supporters(lookArg)
        ELSE lookRet.Err = "no provider found for model" /\ lookRet.Provider = "none"

\* A, D and E are registered, D and E accept m4 without enumerating it, and
\* the scan has returned E
C25_Witness ==
    /\ lookPc = "runlock"
    /\ lookOp = "GetByModel"
    /\ lookArg = "m4"
    /\ "m4" \notin DOMAIN modelToProvider
    /\ {"A", "D", "E"} \subseteq DOMAIN providers
    /\ lookRet.Provider = "E"

\* ------------------------------------------------- claims on the cache service
\* C26: a Get whose search yields no candidate returns the error cache miss
\* together with a nil response, unless the embedding or the search failed;
\* and no Get returns a nil response with a nil error.
C26_MissIsSentinel ==
    /\ [](svcOp = "Get" =>
            /\ svcRet.Err # "none"
            /\ svcRet.Resp = None <=> svcRet.Err # "nil"
            /\ svcRet.Err = "cache miss" => svcRet.Resp = None)
    /\ [][svcOp = "none" /\ svcOp' = "Get" /\ svcReq' # None
            /\ Search(index, embedOf[buildQueryText(svcReq')]) = {<<>>}
                => /\ svcRet'.Resp = None
                   /\ svcRet'.Err \in {"cache miss", "failed to generate embedding",
                                        "failed to search similar vectors"}]_vars

\* a Get over an index whose only records are too far from the query
C26_Witness ==
    /\ svcOp = "Get"
    /\ svcRet = MissReturn
    /\ index # {}
    /\ Search(index, embedOf[buildQueryText(svcReq)]) = {<<>>}

\* the records stored under the key of a query text
RecordsOf(text) == {rec \in index : rec.Key = generateCacheKey(text)}

SamePrompt(r) == {q \in CacheRequests : q.Model = r.Model /\ q.Messages = r.Messages}

\* C28: the requests that have the model and the ordered messages of the
\* request of a Get or a Set have its query text and its cache key whatever
\* their temperature, maxTokens, metadata and stream are; so a Get by any of
\* them searches with its embedding, and after a Set the record under the key
\* of each of them is the single record that this Set stored.
C28_SamplingNotInFingerprint ==
    /\ svcReq # None =>
            \A q \in SamePrompt(svcReq) :
                /\ buildQueryText(q) = buildQueryText(svcReq)
                /\ generateCacheKey(buildQueryText(q)) = generateCacheKey(buildQueryText(svcReq))
                /\ embedOf[buildQueryText(q)] = embedOf[buildQueryText(svcReq)]
    /\ svcOp = "Set" /\ svcRet.Err = "nil" /\ latest[buildQueryText(svcReq)] # None =>
            \A q \in SamePrompt(svcReq) :
                \E rec \in index :
                    /\ RecordsOf(buildQueryText(q)) = {rec}
                    /\ rec.Embedding = embedOf[buildQueryText(q)]
                    /\ Unmarshal(rec.Data) = latest[buildQueryText(svcReq)]

\* a streaming request with metadata hits the only record of the index, which
\* is stored under the key of the plain request with the same prompt
C28_Witness ==
    /\ svcOp = "Get"
    /\ svcReq # None
    /\ svcReq.Stream
    /\ svcRet.Err = "nil"
    /\ Cardinality(index) = 1
    /\ \E q \in SamePrompt(svcReq) :
            /\ ~q.Stream /\ q.Temperature = 7
            /\ RecordsOf(buildQueryText(q)) = index
            /\ svcRet.Resp = latest[buildQueryText(q)]

\* ------------------------------------------------ claims on the stream chunks
DoneWithError(c) == c.Done /\ c.Error # "nil"

\* C29 as stated: no chunk that a provider sent or that the consumer received
\* has done=true together with an error.
C29_NoDoneWithError ==
    /\ \A i \in 1..Len(upSent) : ~DoneWithError(upSent[i])
    /\ \A i \in 1..Len(received) : ~DoneWithError(received[i])

\* C29: the only chunk with done=true and an error is the one the echo
\* provider sends when it finds its context cancelled between two words: it
\* has an empty delta and the error of the context and is the last chunk of
\* the stream; the OpenAI bridge, the caching relay and the replay never
\* produce a chunk with both.
C29_DoneWithErrorOnlyEchoCancel ==
    /\ \A i \in 1..Len(upSent) : DoneWithError(upSent[i]) =>
            /\ provider = "echo"
            /\ cancelled
            /\ upSent[i] = StreamChunk(<<>>, TRUE, "canceled")
            /\ i = Len(upSent)
            /\ i <= req.Fields
    /\ \A i \in 1..Len(received) : DoneWithError(received[i]) =>
            /\ provider = "echo"
            /\ received[i] = StreamChunk(<<>>, TRUE, "canceled")
            /\ i = Len(received)

\* the consumer has received the cancellation chunk of the echo provider
C29_Witness ==
    /\ provider = "echo"
    /\ received # <<>>
    /\ DoneWithError(Last(received))
    /\ upSent # <<>>
    /\ DoneWithError(Last(upSent))

\* C30: when the context of a Stream of the echo provider is cancelled before
\* the provider has sent a terminal chunk, and the consumer reads the channel
\* until it is closed, the last chunk the consumer received has done=true.
C30_CancelledEchoEndsDone ==
    (provider = "echo" /\ path = "direct" /\ cancelEarly /\ sawClose)
        => received # <<>> /\ Last(received).Done

\* ------------------------------------------- claims on the vector index adapter
\* C31: every result of Search has the similarity 1 - d of its document, at
\* least the threshold and between 0 and 1.
C31_SimilarityInRange ==
    /\ Len(searchRet) <= Len(searchArg.Docs)
    /\ \A i \in 1..Len(searchRet) :
            /\ \E j \in 1..Len(searchArg.Docs) :
                    /\ searchArg.Docs[j].Field = "number"
                    /\ searchRet[i].Similarity = 100 - searchArg.Docs[j].Score
            /\ searchRet[i].Similarity >= searchArg.Threshold
            /\ 0 <= searchRet[i].Similarity
            /\ searchRet[i].Similarity <= 100

\* C34: once NewVectorSearch has returned an adapter, the server holds the
\* index with the schema and the dimension the adapter was configured with.
C34_IndexMatchesConfiguration ==
    vs # None => ftIndex = Schema(vs.embeddingDimension)

\* ------------------------------------------------------- claims on the cost
\* C32: a response that CompleteByModel returns without a cache hit, for a
\* response model that has a price, has the cost promptTokens / 1000 x the
\* input price per 1K + completionTokens / 1000 x the output price per 1K.
C32_MissCostFormula ==
    (/\ op = "CompleteByModel"
     /\ result # None
     /\ ~CacheHit
     /\ result.Response.Model \in DOMAIN Pricing)
        => result.Response.Usage.Cost =
                result.Response.Usage.PromptTokens * Pricing[result.Response.Model].InputCostPer1K
                + result.Response.Usage.CompletionTokens * Pricing[result.Response.Model].OutputCostPer1K

\* a miss on gpt-4 with one prompt and one completion token costs 0.00009 USD
C32_Witness ==
    /\ op = "CompleteByModel"
    /\ cacheOn
    /\ CacheMissed
    /\ result # None
    /\ result.Response.Model = "gpt-4"
    /\ result.Response.Usage.CompletionTokens = 1
    /\ result.Response.Usage.Cost = gpt4InputCostPer1K + gpt4OutputCostPer1K

\* C33: cost.Calculate, as Complete and CompleteByModel call it on the model
\* of the response, returns an error exactly when that model is empty, and
\* for a non-empty model without a price it returns the cost 0 and no error.
C33_CalculateErrorIffEmptyModel ==
    (op \in {"Complete", "CompleteByModel"} /\ costResult # None) =>
        /\ costResult = Calculate(provResult.Resp.Model, provResult.Resp.Usage)
        /\ costResult.Err # "nil" <=> provResult.Resp.Model = ""
        /\ (provResult.Resp.Model # "" /\ provResult.Resp.Model \notin DOMAIN Pricing)
                => costResult = [Cost |-> 0, Err |-> "nil"]

\* the upstream answered with the model gpt-4-0613, which has no price
C33_Witness ==
    /\ op = "CompleteByModel"
    /\ costResult = [Cost |-> 0, Err |-> "nil"]
    /\ provResult.Resp.Model = "gpt-4-0613"
    /\ result.Response.Usage.Cost = 0

\* C35: a result of CompleteByModel carries cache metadata exactly when a
\* cache is installed: Hit is true when cache.Get hit and false when it
\* missed or failed, and without a cache the result has no cache metadata.
C35_CacheInfoIffCache ==
    (op = "CompleteByModel" /\ result # None) =>
        /\ result.CacheInfo # None <=> cacheOn
        /\ cacheOn => (result.CacheInfo.Hit <=> CacheHit)
        /\ cacheOn => (~result.CacheInfo.Hit <=> CacheMissed)

\* a completion that succeeded after cache.Get had failed
C35_Witness ==
    /\ op = "CompleteByModel"
    /\ cacheOn
    /\ result # None
    /\ getResult.Outcome = "error"
    /\ result.CacheInfo = [Hit |-> FALSE]

\* C36: once the context is cancelled and the consumer has returned, so that
\* nobody receives from the channel any more, the streaming task of the echo
\* provider is never blocked: it can always take a step until it returns and
\* its channel is closed.
C36_EchoNeverBlocksAfterCancel ==
    (/\ provider = "echo"
     /\ path = "direct"
     /\ cancelled
     /\ consPc = "returned"
     /\ provPc \in {"word", "cancelSend", "final"})
        => ENABLED EchoStep

\* ------------------------------------------------- claims on relay and replay
\* C37: the out channel of the caching relay is closed only after the relay
\* has left its loop and its cache.Set, when one is due, has returned: at the
\* close of a stream without error and with content the Set has been called
\* once with the synthesized response, and the stream stores nothing after
\* the close.
C37_CloseAfterSet ==
    /\ [](path = "relay" =>
            /\ outClosed => relayPc = "done"
            /\ (outClosed /\ ShouldCache(lastError, contentBuilder)) =>
                    setCalls = <<[Req |-> req, Resp |-> Synthesized(req, contentBuilder)]>>
            /\ (outClosed /\ ~ShouldCache(lastError, contentBuilder)) => setCalls = <<>>)
    /\ [][(path = "relay" /\ outClosed) =>
                /\ store' = store
                /\ path' = "relay" => setCalls' = setCalls]_vars

\* the consumer has seen the close of a stream without error and the entry
\* with the relayed content is in the cache
C37_Witness ==
    /\ path = "relay"
    /\ sawClose
    /\ lastError = "nil"
    /\ contentBuilder # <<>>
    /\ Len(setCalls) = 1
    /\ store = Synthesized(req, contentBuilder)

\* the replay of a later StreamByModel, after a relayed stream without error
\* whose entry is the one in the cache
LaterReplay ==
    /\ path = "replay"
    /\ earlier # None
    /\ ~HasError(earlier.Received)
    /\ earlier.SetCalls # <<>>
    /\ store = earlier.SetCalls[1].Resp

\* C38: when the replay of a later StreamByModel for the request of a relayed
\* stream that completed without error has sent its last chunk, the deltas it
\* delivered concatenate to the deltas delivered to the first consumer, and
\* no provider was invoked.
C38_ReplayEqualsDelivered ==
    (LaterReplay /\ replayPc \in {"exit", "done"}) =>
        /\ Deltas(received, TRUE) = Deltas(earlier.Received, TRUE)
        /\ ~Called("provider.Stream")
        /\ provPc = "idle"

\* ------------------------------------------------ claims on repeated lookups
\* C39: while the registry is held for reading, every result a GetByModel for
\* the same model can produce is the result the call in progress has read: a
\* repeated call returns the same provider, also for a model that is not in
\* the reverse index.
C39_GetByModelDeterministic ==
    (lookPc = "runlock" /\ lookOp = "GetByModel") =>
        RegistryGetByModel(lookArg) = {lookRet}

====
